---- MODULE Spec2Model ----
(***************************************************************************)
(* HighlightIt (src/src/index.js): one code block from normalisation       *)
(* (processElement / highlightElement) through its live updates            *)
(* (setupLiveUpdates, updateBlockId, updateCodeBlock,                      *)
(* updateLineNumbersForLiveUpdates).                                       *)
(*                                                                         *)
(* A text is a sequence of characters; ids are sequences of strings, so    *)
(* that the empty id, an author's id, a temporary id and a content hash    *)
(* are values of one kind.  The highlighting engine (highlight.js) is an   *)
(* external collaborator: its markup is represented by the text it wraps   *)
(* and the language it was produced with.  The SHA-256 digest is treated   *)
(* as collision free: the hash of a text is the text under a tag.          *)
(***************************************************************************)
EXTENDS Integers, Sequences, FiniteSets, TLC

\* ------------------------------------------------------------------ bounds
MaxLines == 3
MaxMut == 2
MaxIdLen == 2

\* ------------------------------------------------------------------- texts
NL == "\n"
Chars == {"a", "b", NL}

\* n lines, each the one character ch
RECURSIVE Body(_, _)
Body(n, ch) == IF n = 1 THEN <<ch>> ELSE Body(n - 1, ch) \o <<NL, ch>>

\* the texts the page writes: empty, a line with white space around it, one
\* to MaxLines lines, and other contents of one and of two lines
Texts ==
    {<<>>, <<NL, "a", NL>>, <<"b">>, Body(2, "b")}
      \cup {Body(n, "a") : n \in 1..MaxLines}

\* the texts a source element starts with
FirstTexts == {<<>>, <<NL>>, <<"b">>, <<NL>> \o Body(2, "a") \o <<NL>>}

IsSpace(c) == c = NL

RECURSIVE DropLeading(_)
DropLeading(s) ==
    IF s # <<>> /\ IsSpace(Head(s)) THEN DropLeading(Tail(s)) ELSE s

RECURSIVE DropTrailing(_)
DropTrailing(s) ==
    IF s # <<>> /\ IsSpace(s[Len(s)])
    THEN DropTrailing(SubSeq(s, 1, Len(s) - 1))
    ELSE s

\* String.prototype.trim
Trim(s) == DropTrailing(DropLeading(s))

\* code.split('\n').length
LineCount(s) == Cardinality({i \in 1..Len(s) : s[i] = NL}) + 1

\* --------------------------------------------------------------------- ids
NoId == <<>>
AuthorId == <<"X">>
TempId == <<"temp">>
HashOf(code) == <<"#">> \o code
IsHash(id) == id # <<>> /\ Head(id) = "#"

\* a || b on id strings
OrId(a, b) == IF a # NoId THEN a ELSE b

\* ----------------------------------------------------------------- numbers
Digits == <<"0", "1", "2", "3", "4", "5", "6", "7", "8", "9">>
DigitVal(c) == (CHOOSE i \in 1..10 : Digits[i] = c) - 1

RECURSIVE ParseDigits(_, _)
ParseDigits(s, acc) ==
    IF s = <<>> THEN acc ELSE ParseDigits(Tail(s), acc * 10 + DigitVal(Head(s)))

\* parseInt(s, 10) on a decimal literal with an optional sign
ParseInt(s) ==
    IF Head(s) = "-" THEN 0 - ParseDigits(Tail(s), 0) ELSE ParseDigits(s, 0)

RECURSIVE DigitPrefix(_)
DigitPrefix(str) ==
    IF str = <<>> \/ Head(str) \notin {Digits[i] : i \in 1..10} THEN <<>>
    ELSE <<Head(str)>> \o DigitPrefix(Tail(str))

\* the longest prefix of a string that parseInt reads: an optional minus
\* sign and decimal digits; empty when no digit is read
NumericPrefix(str) ==
    LET signed == str # <<>> /\ Head(str) = "-"
        digits == DigitPrefix(IF signed THEN Tail(str) ELSE str)
    IN IF digits = <<>> THEN <<>> ELSE IF signed THEN <<"-">> \o digits ELSE digits

\* NaN as a line number: apart from every integer a gutter shows, and
\* absorbing in a sum
NaN == 0 - 1000

Add(a, b) == IF a = NaN THEN NaN ELSE a + b

\* parseInt(element.dataset.lineStart || ... || 1, 10): an absent (or empty)
\* attribute is falsy and gives 1; the string "0" is truthy and gives 0; a
\* string that starts with no number gives NaN
LineStartOf(attr) ==
    IF attr = <<>> THEN 1
    ELSE IF NumericPrefix(attr) = <<>> THEN NaN ELSE ParseInt(NumericPrefix(attr))

RECURSIVE NatToStr(_)
NatToStr(n) ==
    IF n < 10 THEN <<Digits[n + 1]>> ELSE NatToStr(n \div 10) \o <<Digits[(n % 10) + 1]>>

\* String(n), as the dataset setter stores a number
IntToStr(n) == IF n < 0 THEN <<"-">> \o NatToStr(0 - n) ELSE NatToStr(n)

\* ---------------------------------------------------------- configuration
\* a: the data-* attributes of the source element; o: the options of the
\* call.  ls is the lineStart option of highlight(): <<>> when absent, else
\* <<n>>.

Attrs(reload, share, lines, lineStart, language, noHeader, noCopy) ==
    [reload |-> reload, share |-> share, lines |-> lines, lineStart |-> lineStart,
     language |-> language, noHeader |-> noHeader, noCopy |-> noCopy]

\* HighlightIt.highlight: the options are written to the element's dataset
HighlightOptions(a, o) ==
    [reload    |-> a.reload \/ o.withReload,
     share     |-> a.share \/ o.addShare,
     lines     |-> a.lines \/ o.addLines,
     lineStart |-> IF o.ls # <<>> THEN IntToStr(o.ls[1]) ELSE a.lineStart,
     language  |-> IF o.language # "" THEN o.language ELSE a.language,
     noHeader  |-> a.noHeader \/ ~o.addHeader,
     noCopy    |-> a.noCopy \/ ~o.addCopyButton]

\* the element's dataset when processElement starts
SourceAttrs(c) == IF c.entry = "highlight" THEN HighlightOptions(c.a, c.o) ELSE c.a

\* processElement, lines 370-373: data-line-start switches line numbers on
WithLineStart(a) ==
    IF a.lineStart # <<>> THEN [a EXCEPT !.lines = TRUE] ELSE a

AddLinesParam(c) == c.o.addLines \/ SourceAttrs(c).lineStart # <<>>

\* the container built by processElement is recognised by createCodeContainer
\* only when its class is highlightit-container
OneContainer(c) == c.tag = "code" \/ c.hl

\* the dataset that highlightElement sees through the code element and its
\* container: a container made by createCodeContainer carries no attribute of
\* the source element; the code element carries language and lineStart
SeenDataset(c) ==
    LET a == WithLineStart(SourceAttrs(c)) IN
    IF OneContainer(c) THEN [a EXCEPT !.reload = @ \/ c.wrapReload]
    ELSE Attrs(FALSE, FALSE, FALSE, a.lineStart, a.language, FALSE, FALSE)

WithLiveUpdates(c) == SourceAttrs(c).reload

\* the hidden mirror takes the id of the pre (code inside pre) or of the
\* element itself
MirrorIdOf(c) ==
    IF WithLiveUpdates(c) /\ ((c.tag = "code" /\ c.idOn = "pre") \/ (c.tag = "div" /\ c.idOn = "el"))
    THEN AuthorId ELSE NoId

\* data-original-id of the container that highlightElement works on
OriginalIdOf(c) == IF OneContainer(c) THEN MirrorIdOf(c) ELSE NoId

\* the DOM id of that container after normalisation
ContainerIdOf(c) ==
    IF c.tag = "code"
    THEN IF c.idOn = "el" \/ (c.idOn = "pre" /\ ~WithLiveUpdates(c)) THEN AuthorId ELSE NoId
    ELSE IF c.hl /\ c.idOn = "el" /\ ~WithLiveUpdates(c) THEN AuthorId ELSE NoId

\* ------------------------------------------------------ highlighting engine
\* innerHTML of the code element: the text it shows, the language it was
\* highlighted with, and whether it is engine markup or escaped plain text
Markup(text, lang, mode) == [text |-> text, lang |-> lang, mode |-> mode]

Supported == {"javascript", "python", "plaintext"}

\* escapeHtml: the escaped string, shown by the browser as the same text
EscapeHtml(code) == Markup(code, "", "esc")

\* hljs.highlightAuto, a deterministic function of the text
Detect(code) == IF \E i \in 1..Len(code) : code[i] = NL THEN "python" ELSE "javascript"

AutoDetectLanguage(code) ==
    IF code = <<>> \/ Len(Trim(code)) < 3
    THEN [value |-> EscapeHtml(code), language |-> "plaintext"]
    ELSE [value |-> Markup(code, Detect(code), "hl"), language |-> Detect(code)]

\* hljs.highlight inside try/catch: an engine failure gives escaped text
HighlightOrEscape(code, language) ==
    IF language \in Supported THEN Markup(code, language, "hl") ELSE EscapeHtml(code)

\* getLanguageFromFilename(x) || x, for the language names of the model
LanguageOf(languageOrFilename) == languageOrFilename

\* data-filename: the string and its parts between the dots; NoFile is the
\* absent attribute
File(name, parts) == [name |-> name, parts |-> parts]
NoFile == File("", <<>>)

\* getLanguageFromFilename: cache.extensionMap.get(filename.split('.').pop())
\* || null, null being ""
GetLanguageFromFilename(filename) ==
    LET extension == filename.parts[Len(filename.parts)]
    IN CASE extension = "py" -> "python"
         [] extension = "js" -> "javascript"
         [] OTHER -> ""

\* getLanguageFileExtension: 'txt' without a language, the first extension
\* the table maps to the language, else the language name itself
GetLanguageFileExtension(language) ==
    CASE language = "" -> "txt"
      [] language = "javascript" -> "js"
      [] language = "python" -> "py"
      [] OTHER -> language

\* the filename of a download: container.dataset.filename, else 'code.' and
\* the extension of the language handed in (lines 1243-1248, 1324-1331,
\* 1750-1761)
DownloadName(file, language) ==
    IF file # NoFile THEN file.name ELSE "code." \o GetLanguageFileExtension(language)

\* code.dataset.language || (code.className.match(/language-(\w+)/) || [])[1]
CodeLanguage(ds, b) == IF ds.language # "" THEN ds.language ELSE b.langClass

\* classList.add(`language-${language}`): the first language class is the
\* one the regular expression finds
AddLanguageClass(b, language) ==
    [b EXCEPT !.langClass = IF @ = "" THEN language ELSE @]

\* ------------------------------------------------------------- the block
\* A pending promise: a digest whose reaction has not run yet
Task(kind, code) == [kind |-> kind, code |-> code]

\* An identity resolution: where, the result, and the container's
\* attributes when the result is put to use
Event(at, res, b, code) ==
    [at |-> at, res |-> res, orig |-> b.orig, cid |-> b.cid, code |-> code]

Undefined == <<"undefined">>

\* a click listener of the share button: "dyn" reads data-original-id ||
\* container.id at the click, "cid" reads container.id, "cap" holds an id
Listener(kind, id) == [kind |-> kind, id |-> id]

NoButton == [present |-> FALSE, cur |-> NoId, lis |-> <<>>]
NoCopy == [present |-> FALSE, cur |-> Undefined, backup |-> FALSE, lis |-> <<>>]

\* the download button: the filename its listener saves under, its _code and
\* the texts its click listeners save
NoDownload == [present |-> FALSE, name |-> "", cur |-> Undefined, lis |-> <<>>]

\* an entry whose share button gets the 0-based index as dataset.lineNumber
EntryIndexed(node, num, share, bid) ==
    [node |-> node, num |-> num, share |-> share,
     bid |-> IF share THEN bid ELSE NoId,
     ln |-> IF share THEN node ELSE 0,
     lis |-> IF share THEN 1 ELSE 0]

\* a gutter entry: the container node, the number its span shows, and its
\* line-share button (dataset.blockId, dataset.lineNumber, click listeners)
Entry(node, num, share, bid) ==
    [node |-> node, num |-> num, share |-> share,
     bid |-> IF share THEN bid ELSE NoId,
     ln |-> IF share THEN num ELSE 0,
     lis |-> IF share THEN 1 ELSE 0]

\* the creation loop with the numbering restarted at the first new entry
NewEntriesRestarted(b, from, to, start, share, bid) ==
    [k \in 1..(to - from) |-> Entry(b.nn + k - 1, Add(start, k - 1), share, bid)]

\* the creation loops of addLineNumbers, updateLineNumbersForLiveUpdates and
\* updateCodeBlock: entries for the 0-based positions from .. to - 1
NewEntries(b, from, to, start, share, bid) ==
    [k \in 1..(to - from) |-> Entry(b.nn + k - 1, Add(start, from + k - 1), share, bid)]

\* button.dataset.blockId !== blockId: the old listener is removed and
\* setupLineShareButtonHandler adds one
Rebind(e, blockId) ==
    IF e.bid # blockId THEN [e EXCEPT !.bid = blockId, !.lis = (IF @ > 0 THEN @ - 1 ELSE 0) + 1]
    ELSE e

\* how many entries up to j carry a share button
ShareRank(g, j) == Cardinality({k \in 1..j : g[k].share})

\* a share button appended before its identity is resolved
createShareButtonAppendedFirst(b, code) ==
    LET blockId == OrId(b.orig, b.cid)
        b1 == [b EXCEPT !.share = [present |-> TRUE, cur |-> blockId,
                                   lis |-> <<Listener("dyn", NoId)>>]]
    IN IF blockId # NoId THEN b1
       ELSE [b1 EXCEPT !.tasks = Append(@, Task("createShare", code))]

createShareButton(b, code) ==
    LET blockId == OrId(b.orig, b.cid) IN
    IF blockId # NoId
    THEN [b EXCEPT !.share = [present |-> TRUE, cur |-> blockId, lis |-> <<Listener("dyn", NoId)>>],
                   !.ev = @ \cup {Event("createShareButton", blockId, b, code)}]
    ELSE [b EXCEPT !.tasks = Append(@, Task("createShare", code))]

\* createShareButton after `await this.generateHash(code)`
createShareButtonResume(b, code) ==
    LET blockId == HashOf(code) IN
    [b EXCEPT !.cid = blockId,
              !.share = [present |-> TRUE, cur |-> blockId, lis |-> <<Listener("dyn", NoId)>>],
              !.ev = @ \cup {Event("createShareButton", blockId, b, code)}]

addLineNumbers(b, code, ds) ==
    IF b.gutterOn THEN b
    ELSE
      LET n == LineCount(Trim(code))
          startLine == LineStartOf(ds.lineStart)
          id0 == OrId(b.orig, b.cid)
          needTemp == ds.share /\ id0 = NoId
          blockId == IF ~ds.share THEN NoId ELSE IF needTemp THEN TempId ELSE id0
      IN [b EXCEPT !.cid = IF needTemp THEN TempId ELSE @,
                   !.tasks = IF needTemp THEN Append(@, Task("lnHash", code)) ELSE @,
                   !.gutterOn = TRUE,
                   !.gutter = NewEntries(b, 0, n, startLine, ds.share /\ blockId # NoId, blockId),
                   !.nn = @ + n]

\* addLineNumbers after generateHash: the span has no share button inside
\* it, so no dataset.blockId is rewritten
addLineNumbersResume(b, code) ==
    IF b.cid = TempId THEN [b EXCEPT !.cid = HashOf(code)] ELSE b

\* renumber entry j of the gutter g (0-based position j - 1) and refresh its
\* share button, as the loops over allLineContainers do
RenumberEntry(e, lineNumber, withShare, blockId) ==
    LET e1 == [e EXCEPT !.num = lineNumber] IN
    IF withShare /\ blockId # NoId /\ e.share
    THEN Rebind([e1 EXCEPT !.ln = lineNumber], blockId)
    ELSE e1

\* the tail removal of both gutter updates: the entries at the 0-based
\* positions newCount .. oldCount - 1 of the list read before the loop
RemoveTail(g, newCount, oldCount) ==
    LET keep == {j \in 1..Len(g) : j <= newCount \/ j > oldCount}
        n == Cardinality(keep)
    IN [k \in 1..n |-> g[CHOOSE j \in keep : Cardinality({i \in keep : i < j}) = k - 1]]

updateLineNumbersForLiveUpdates(b, newLineCount, oldLineCount, startLine, withShare, blockId) ==
    LET g == b.gutter IN
    IF newLineCount = oldLineCount
    THEN \* lineNumbers[i] and lineShareButtons[i] are indexed separately
         [b EXCEPT !.gutter =
            [j \in 1..Len(g) |->
               LET e1 == IF j <= newLineCount
                         THEN [g[j] EXCEPT !.num = Add(startLine, j - 1)] ELSE g[j]
                   r == ShareRank(g, j)
               IN IF withShare /\ blockId # NoId /\ g[j].share /\ r <= newLineCount
                  THEN Rebind([e1 EXCEPT !.ln = Add(startLine, r - 1)], blockId)
                  ELSE e1]]
    ELSE IF newLineCount > oldLineCount
    THEN [b EXCEPT !.gutter = g \o NewEntries(b, oldLineCount, newLineCount, startLine,
                                              withShare /\ blockId # NoId, blockId),
                   !.nn = @ + (newLineCount - oldLineCount)]
    ELSE LET cut == RemoveTail(g, newLineCount, oldLineCount) IN
         [b EXCEPT !.gutter =
            [j \in 1..Len(cut) |->
               IF j <= newLineCount
               THEN RenumberEntry(cut[j], Add(startLine, j - 1), withShare, blockId)
               ELSE cut[j]]]

\* updateCodeBlock, lines 1549-1696: oldLines counts every entry twice (its
\* container and the span inside it)
UpdateGutter(b, cleanedCode, ds) ==
    IF ~b.gutterOn THEN addLineNumbers(b, cleanedCode, ds)
    ELSE
      LET g == b.gutter
          lineCount == LineCount(cleanedCode)
          oldLineCount == 2 * Len(g)
          lineStart == LineStartOf(ds.lineStart)
          currentBlockId == OrId(b.orig, b.cid)
          withShare == ds.share
          g1 == IF lineCount > oldLineCount
                THEN g \o NewEntries(b, oldLineCount, lineCount, lineStart,
                                     withShare /\ currentBlockId # NoId, currentBlockId)
                ELSE IF lineCount < oldLineCount
                THEN RemoveTail(g, lineCount, oldLineCount)
                ELSE g
      IN [b EXCEPT !.gutter =
              [j \in 1..Len(g1) |->
                 IF j <= lineCount
                 THEN RenumberEntry(g1[j], Add(lineStart, j - 1), withShare, currentBlockId)
                 ELSE g1[j]],
                   !.nn = @ + (IF lineCount > oldLineCount THEN lineCount - oldLineCount ELSE 0)]

\* updateCodeBlock, lines 1698-1737 and 1869-1899: onclickBackup is the
\* listener that is removed; a floating copy button has none at first
UpdateCopyButton(copy, cleanedCode) ==
    IF copy.present /\ copy.cur # cleanedCode
    THEN [present |-> TRUE, cur |-> cleanedCode, backup |-> TRUE,
          lis |-> Append(IF copy.backup THEN SubSeq(copy.lis, 1, Len(copy.lis) - 1)
                         ELSE copy.lis, cleanedCode)]
    ELSE copy

\* updateCodeBlock, lines 1739-1791 (and 1903-1957, which then finds _code
\* up to date): onclickBackup, set at creation, is removed
UpdateDownloadButton(b, ds, cleanedCode) ==
    IF b.download.present /\ b.download.cur # cleanedCode
    THEN [present |-> TRUE, name |-> DownloadName(b.cds.filename, CodeLanguage(ds, b)),
          cur |-> cleanedCode, lis |-> <<cleanedCode>>]
    ELSE b.download

\* updateCodeBlock, lines 2026-2042: a header-less container without
\* floating buttons gets them, by the container's dataset alone
NewFloatingButtons(b, ds, cleanedCode) ==
    LET b1 == [b EXCEPT !.copy = [present |-> TRUE, cur |-> Undefined,
                                  backup |-> FALSE, lis |-> <<cleanedCode>>],
                        !.download =
                            IF b.cds.download
                            THEN [present |-> TRUE,
                                  name |-> DownloadName(b.cds.filename, CodeLanguage(ds, b)),
                                  cur |-> cleanedCode, lis |-> <<cleanedCode>>]
                            ELSE @]
    IN IF b.cds.share THEN createShareButton(b1, cleanedCode) ELSE b1

\* updateCodeBlock, lines 1793-1867 and 1959-2028
UpdateShareButton(b, cleanedCode) ==
    IF ~b.share.present THEN b
    ELSE IF b.orig # NoId THEN [b EXCEPT !.share.cur = b.orig]
    ELSE IF b.cid # NoId
    THEN IF b.share.cur # b.cid
         THEN [b EXCEPT !.share = [present |-> TRUE, cur |-> b.cid, lis |-> <<Listener("cid", NoId)>>]]
         ELSE b
    ELSE [b EXCEPT !.tasks = Append(@, Task("shareHash", cleanedCode))]

UpdateShareButtonResume(b, code) ==
    LET blockId == HashOf(code) IN
    [b EXCEPT !.cid = blockId,
              !.share = IF @.cur # blockId
                        THEN [present |-> TRUE, cur |-> blockId, lis |-> <<Listener("cap", blockId)>>]
                        ELSE @]

updateCodeBlock(b, ds, languageOrFilename, code, showLanguage) ==
    LET cleanedCode == Trim(code)
        withLines == b.withLines \/ ds.lineStart # <<>>
        language == IF languageOrFilename # "" THEN LanguageOf(languageOrFilename) ELSE ""
        b1 == [b EXCEPT !.code = IF language # "" THEN HighlightOrEscape(cleanedCode, language)
                                 ELSE EscapeHtml(cleanedCode),
                        !.writes = @ + 1]
        b2 == IF withLines THEN UpdateGutter(b1, cleanedCode, ds) ELSE b1
        b3 == [b2 EXCEPT !.copy = UpdateCopyButton(@, cleanedCode),
                         !.download = UpdateDownloadButton(b2, ds, cleanedCode)]
        b4 == UpdateShareButton(b3, cleanedCode)
        b5 == IF b4.noHeaderClass /\ ~b4.copy.present
              THEN NewFloatingButtons(b4, ds, cleanedCode)
              ELSE b4
    IN IF showLanguage /\ language # "" /\ b5.header
       THEN [b5 EXCEPT !.label = languageOrFilename]
       ELSE b5

\* updateBlockId up to its await: the mirror carries the original id, so
\* the querySelector of line 196 finds it
updateBlockId(b, newCode) ==
    IF b.orig # NoId
    THEN [b EXCEPT !.cid = IF @ = b.orig THEN NoId ELSE @,
                   !.ev = @ \cup {Event("updateBlockId", b.orig, b, newCode)}]
    ELSE IF b.cid # NoId
    THEN [b EXCEPT !.ev = @ \cup {Event("updateBlockId", b.cid, b, newCode)}]
    ELSE [b EXCEPT !.tasks = Append(@, Task("updateBlockId", newCode))]

\* updateBlockId after `await this.generateHash(newCode)`, lines 221-223
updateBlockIdResume(b, newCode) ==
    [b EXCEPT !.cid = HashOf(newCode),
              !.ev = @ \cup {Event("updateBlockId", HashOf(newCode), b, newCode)}]

\* --------------------------------------------------------- highlightElement
WithShare(c) == c.o.addShare \/ SeenDataset(c).share
WithLines(c) == AddLinesParam(c) \/ SeenDataset(c).lines
NoHeader(c) == ~c.o.addHeader \/ SeenDataset(c).noHeader
ShouldAddCopyButton(c) == c.o.addCopyButton /\ ~SeenDataset(c).noCopy
\* data-filename, seen like the other attributes of the source element
Filename(c) == IF OneContainer(c) THEN c.filename ELSE NoFile

\* lines 635-651: data-language, overridden by the language of data-filename
ConfiguredLanguage(c) ==
    IF Filename(c) # NoFile THEN GetLanguageFromFilename(Filename(c))
    ELSE SeenDataset(c).language

\* lines 635-651: displayLabel
DisplayLabel(c) ==
    IF Filename(c) # NoFile THEN Filename(c).name ELSE SeenDataset(c).language

\* data-with-download, seen like the other attributes of the source element
WithDownload(c) == c.download /\ OneContainer(c)
HasHeader(c) ==
    /\ c.o.showLanguage \/ ShouldAddCopyButton(c) \/ WithShare(c) \/ WithDownload(c)
    /\ c.o.addHeader
    /\ ~NoHeader(c)

\* what the dataset of the container that highlightElement works on holds of
\* filename, withDownload and withShare: the attributes of a source element
\* that processElement replaced (lines 495-496), nothing for a container made
\* by createCodeContainer
ContainerDataset(c) ==
    IF c.tag = "div" /\ OneContainer(c)
    THEN [filename |-> c.filename, download |-> c.download, share |-> SourceAttrs(c).share]
    ELSE [filename |-> NoFile, download |-> FALSE, share |-> FALSE]

\* the container and its pre/code pair as processElement leaves them
NormalizedBlock(c, text) ==
    [cid |-> ContainerIdOf(c), orig |-> OriginalIdOf(c),
     code |-> Markup(text, "", "text"),
     gutterOn |-> FALSE, gutter |-> <<>>, nn |-> 0,
     withLines |-> FALSE, header |-> FALSE, headers |-> 0, noHeaderClass |-> FALSE, label |-> "",
     share |-> NoButton, copy |-> NoCopy, download |-> NoDownload,
     langClass |-> IF c.tag = "div" THEN SourceAttrs(c).language ELSE "",
     cds |-> ContainerDataset(c),
     writes |-> 0, tasks |-> <<>>, ev |-> {}]

\* lines 665-674
HashForStaticShare(c, b, code) ==
    IF WithShare(c) /\ ~SeenDataset(c).reload /\ OrId(b.orig, b.cid) = NoId
    THEN [b EXCEPT !.tasks = Append(@, Task("highlightHash", code))]
    ELSE b

\* lines 676-702: createCodeHeader or createFloatingButtons
AddControls(c, b, code) ==
    LET language == DisplayLabel(c) IN
    IF HasHeader(c)
    THEN LET b1 == [b EXCEPT !.header = TRUE,
                             !.headers = @ + 1,
                             !.label = IF c.o.showLanguage
                                       THEN (IF language # "" THEN language ELSE "unknown")
                                       ELSE "",
                             !.copy = IF ShouldAddCopyButton(c)
                                      THEN [present |-> TRUE, cur |-> Trim(code),
                                            backup |-> TRUE, lis |-> <<code>>]
                                      ELSE NoCopy,
                             !.download =
                                 IF WithDownload(c)
                                 THEN [present |-> TRUE,
                                       name |-> DownloadName(b.cds.filename, DisplayLabel(c)),
                                       cur |-> code, lis |-> <<code>>]
                                 ELSE NoDownload]
         IN IF WithShare(c) THEN createShareButton(b1, code) ELSE b1
    ELSE IF NoHeader(c)
    THEN LET b1 == [b EXCEPT !.noHeaderClass = TRUE] IN
         IF ShouldAddCopyButton(c) \/ WithShare(c) \/ WithDownload(c)
         THEN LET b2 == [b1 EXCEPT !.copy = [present |-> TRUE, cur |-> Undefined,
                                             backup |-> FALSE, lis |-> <<code>>],
                                   !.download =
                                       IF WithDownload(c)
                                       THEN [present |-> TRUE,
                                             name |-> DownloadName(b.cds.filename,
                                                                   CodeLanguage(SeenDataset(c), b)),
                                             cur |-> Trim(code), lis |-> <<code>>]
                                       ELSE NoDownload]
              IN IF WithShare(c) THEN createShareButton(b2, code) ELSE b2
         ELSE b1
    ELSE b

\* lines 712-797: the first highlighting and the gutter
FirstHighlight(c, b, code) ==
    LET ds == SeenDataset(c)
        language == ConfiguredLanguage(c)
        b1 == IF language = "" /\ c.o.autoDetect
              THEN LET r == AutoDetectLanguage(code) IN
                   [AddLanguageClass(b, r.language)
                       EXCEPT !.code = r.value,
                              !.label = IF c.o.showLanguage /\ ~NoHeader(c) /\ b.header
                                        THEN r.language ELSE @]
              ELSE IF language # ""
              THEN [AddLanguageClass(b, language)
                       EXCEPT !.code = HighlightOrEscape(code, language)]
              ELSE [b EXCEPT !.code = EscapeHtml(code)]
        b2 == [b1 EXCEPT !.writes = @ + 1]
    IN IF WithLines(c) THEN addLineNumbers(b2, code, ds) ELSE b2

\* highlightElement up to line 706: the container and its controls, the code
\* not yet highlighted
BeforeSetup(c, text) ==
    LET code == Trim(text)
        b0 == NormalizedBlock(c, text)
        b1 == HashForStaticShare(c, b0, code)
        b2 == AddControls(c, b1, code)
    IN [b2 EXCEPT !.withLines = WithLines(c)]

highlightElement(c, text) == FirstHighlight(c, BeforeSetup(c, text), Trim(text))

\* ---------------------------------------------------------- setupLiveUpdates
\* live updates are set up when highlightElement sees data-with-reload
Observing(c) == SeenDataset(c).reload

\* lines 819-820: findOriginalElement finds the mirror that processElement
\* made; where it made none, elementToWatch is the visible code element
WatchesCode(c) == Observing(c) /\ ~WithLiveUpdates(c)

LiveLanguage(c) == SeenDataset(c).language

\* lines 828-835: the language detected when the observer is set up
FirstDetected(c, text) ==
    IF LiveLanguage(c) = "" /\ c.o.autoDetect /\ Trim(text) # <<>>
    THEN AutoDetectLanguage(Trim(text)).language
    ELSE ""

\* the callback without `if (timeout) clearTimeout(timeout)`
ObserverCallbackKeepsTimer(timer) ==
    [pending |-> timer.pending + 1, handle |-> TRUE]

\* the MutationObserver callback, lines 933-939: timer is the block's timeout
\* variable (handle) and the number of callbacks scheduled and not yet run
ObserverCallback(timer) ==
    [pending |-> (IF timer.handle /\ timer.pending > 0 THEN timer.pending - 1
                  ELSE timer.pending) + 1,
     handle |-> TRUE]

\* the observer of a block that observes its visible code element is told of
\* every innerHTML written to that element
Feedback(c, t, wrote) == IF WatchesCode(c) /\ wrote THEN ObserverCallback(t) ELSE t

\* rehighlight, lines 839-931, up to the end of the timer callback.  micro
\* says that updateBlockId resolved without a digest, so its continuation
\* runs as a microtask right after the callback
Pass(b, last, det, kind, micro) ==
    [b |-> b, last |-> last, det |-> det, kind |-> kind, micro |-> micro]

RehighlightGutter(c, b, code) ==
    IF b.withLines
    THEN updateLineNumbersForLiveUpdates(b, LineCount(code), Len(b.gutter),
                                         LineStartOf(SeenDataset(c).lineStart),
                                         SeenDataset(c).share, OrId(b.orig, b.cid))
    ELSE b

RehighlightAuto(c, b, det, code) ==
    IF det = "" \/ (c.o.showLanguage /\ ~(b.header /\ b.label # ""))
    THEN LET r == AutoDetectLanguage(code) IN
         [b |-> [AddLanguageClass(b, r.language)
                    EXCEPT !.code = r.value, !.writes = @ + 1,
                           !.label = IF c.o.showLanguage /\ b.header THEN r.language ELSE @],
          det |-> r.language]
    ELSE [b |-> [AddLanguageClass(b, det)
                    EXCEPT !.code = HighlightOrEscape(code, det), !.writes = @ + 1],
          det |-> det]

\* lines 848-930: the pass proper, on a text that passed the two checks
Reconcile(c, b, det, code) ==
    IF WithShare(c)
    THEN Pass(RehighlightGutter(c, updateBlockId(b, code), code), code, det, "run",
              OrId(b.orig, b.cid) # NoId)
    ELSE IF LiveLanguage(c) = "" /\ c.o.autoDetect
    THEN LET r == RehighlightAuto(c, b, det, code) IN
         Pass(RehighlightGutter(c, r.b, code), code, r.det, "run", FALSE)
    ELSE Pass(RehighlightGutter(
                  c,
                  AddLanguageClass(updateCodeBlock(b, SeenDataset(c), LiveLanguage(c), code,
                                                   c.o.showLanguage),
                                   IF LiveLanguage(c) # "" THEN LiveLanguage(c) ELSE "unknown"),
                  code),
              code, det, "run", FALSE)

\* rehighlight without `if (code === lastProcessedCode) return`
rehighlightAlways(c, b, last, det, text) ==
    LET code == Trim(text) IN
    IF code = <<>> THEN Pass(b, last, det, "empty", FALSE)
    ELSE Reconcile(c, b, det, code)

rehighlight(c, b, last, det, text) ==
    LET code == Trim(text) IN
    IF code = <<>> THEN Pass(b, last, det, "empty", FALSE)
    ELSE IF code = last THEN Pass(b, last, det, "skip", FALSE)
    ELSE Reconcile(c, b, det, code)

\* the continuation of line 851-853
AfterBlockId(c, b, code) ==
    updateCodeBlock(b, SeenDataset(c), LiveLanguage(c), code, c.o.showLanguage)

\* the reaction of a settled digest
Resume(c, b, t) ==
    CASE t.kind = "createShare" -> createShareButtonResume(b, t.code)
      [] t.kind = "lnHash" -> addLineNumbersResume(b, t.code)
      [] t.kind = "highlightHash" -> [b EXCEPT !.cid = HashOf(t.code)]
      [] t.kind = "updateBlockId" -> AfterBlockId(c, updateBlockIdResume(b, t.code), t.code)
      [] OTHER -> UpdateShareButtonResume(b, t.code)

RemoveAt(q, i) == SubSeq(q, 1, i - 1) \o SubSeq(q, i + 1, Len(q))

\* the id a click listener of the block share button puts in the URL: the
\* listener of createShareButton (line 162), of updateCodeBlock with an id on
\* the container (line 1814), of updateCodeBlock after a digest (line 1848)
ClickId(l, b) ==
    CASE l.kind = "dyn" -> OrId(b.orig, b.cid)
      [] l.kind = "cid" -> b.cid
      [] OTHER -> l.id

\* the block id a click on a per-line share button puts in the URL
LineClickId(b) == OrId(b.orig, b.cid)

\* url.hash of that click: `${currentBlockId}_${button.dataset.lineNumber}`,
\* kept as the pair of its two parts
LineFragment(b, j) == <<LineClickId(b), b.gutter[j].ln>>

\* ----------------------------------------------------------- URL fragments
\* Identities as the strings the page sees.  An HTML id is any string
\* without white space; a content hash is drawn from BASE62_CHARS
\* (generateHash); the fallback hash is 'h-' and hexadecimal digits
\* (polyfills.simpleHash).  MaxIdLen stands for the lengths (12 in the code).
RECURSIVE Strings(_, _)
Strings(S, n) ==
    IF n = 0 THEN {<<>>} ELSE {<<c>> \o t : c \in S, t \in Strings(S, n - 1)}

Identities ==
    LET AuthorIds == UNION {Strings({"x", "7", "-", "_"}, n) : n \in 1..MaxIdLen}
        ContentHashes == Strings({"x", "7"}, MaxIdLen)
        FallbackHashes == {<<"h", "-">> \o t : t \in Strings({"7", "c"}, MaxIdLen)}
    IN AuthorIds \cup ContentHashes \cup FallbackHashes

\* the numbers a gutter entry can display: lineStart + i for any integer
\* data-line-start
LineNumbers == (0 - 2)..12

\* String.prototype.split(sep) for a separator of one character
RECURSIVE Split(_, _)
Split(str, sep) ==
    IF str = <<>> THEN << <<>> >>
    ELSE LET rest == Split(Tail(str), sep)
         IN IF Head(str) = sep
            THEN << <<>> >> \o rest
            ELSE << <<Head(str)>> \o Head(rest) >> \o Tail(rest)

\* parseInt(str, 10): an optional sign, then the longest prefix of decimal
\* digits; NaN when there is none.  A line number is a record: a number,
\* null or NaN.
parseInt(str) ==
    LET signed == str # <<>> /\ Head(str) \in {"-", "+"}
        digits == DigitPrefix(IF signed THEN Tail(str) ELSE str)
    IN IF digits = <<>> THEN [kind |-> "NaN", n |-> 0]
       ELSE IF signed /\ Head(str) = "-"
            THEN [kind |-> "num", n |-> 0 - ParseDigits(digits, 0)]
            ELSE [kind |-> "num", n |-> ParseDigits(digits, 0)]

\* scrollToAnchor: hash and lineNumber of a non-empty fragment
ParseAnchor(fullHash) ==
    LET hashParts == Split(fullHash, "_")
    IN [parsed |-> TRUE,
        hash |-> hashParts[1],
        lineNumber |-> IF Len(hashParts) > 1 THEN parseInt(hashParts[2])
                       ELSE [kind |-> "null", n |-> 0]]

\* ------------------------------------------------------------------- state
VARIABLES
    cfg,                \* the source element and the options of the call
    pc,                 \* "raw" before processElement, "done" after it
    srcText,            \* textContent of the source element
    mirrorText,         \* textContent of the hidden mirror's code element
    blk,                \* the container: ids, code, gutter, controls, promises
    timer,              \* setupLiveUpdates: timeout and the scheduled callbacks
    lastProcessedCode,  \* setupLiveUpdates closure
    detectedLanguage,   \* setupLiveUpdates closure
    muts,               \* mutations made by the page so far
    runs,               \* history: runs of mutations (a run starts with no timer pending)
    fires,              \* history: timer callbacks run
    lastPass,           \* history: what the last callback did
    location,           \* window.location.hash without its '#'
    shared,             \* history: the identity and line the URL was copied for
    anchor,             \* scrollToAnchor: hash and lineNumber it parsed
    target,             \* whether document.getElementById(hash) finds an element
    retry,              \* scrollToAnchor: its timeout, and the history of its retries
    dataset,            \* the data attributes of the element passed in
    returned,           \* what the call gave its caller
    call,               \* the last call of a helper: its input and its result
    bulk,               \* init: the matched elements and the chunk loop over them
    page                \* two live blocks of one document and the timers of its window

blockVars == <<cfg, pc, srcText, mirrorText, blk, timer, lastProcessedCode,
               detectedLanguage, muts, runs, fires, lastPass, dataset, returned>>
anchorVars == <<location, shared, anchor, target, retry>>
helperVars == <<call, bulk, page>>
vars == <<blockVars, anchorVars, helperVars>>

\* scrollToAnchor has not run: no timeout, no retry made, nothing scrolled to
NoRetry == [timer |-> "none", attempts |-> 0, delay |-> 0, retries |-> 0, scrolled |-> FALSE]

\* no helper has been called
NoCall == [fn |-> "none", input |-> <<>>, out |-> <<>>]

\* no element of the page has been processed, no timer is set
NoPage == [phase |-> "raw", blocks |-> <<>>, timers |-> {}, next |-> 1, muts |-> 0, last |-> 0]

\* init has not been called
NoBulk == [phase |-> "idle", n |-> 0, hash |-> FALSE, native |-> TRUE, firstLive |-> 0,
           processed |-> <<>>, ticks |-> 0, lastTick |-> 0, navigated |-> FALSE]

Options(autoDetect, showLanguage, addHeader, addLines, addShare, withReload, ls, language) ==
    [autoDetect |-> autoDetect, addCopyButton |-> TRUE, showLanguage |-> showLanguage,
     addHeader |-> addHeader, addLines |-> addLines, addShare |-> addShare,
     withReload |-> withReload, ls |-> ls, language |-> language]

Config(entry, tag, hl, idOn, a, o) ==
    [entry |-> entry, tag |-> tag, hl |-> hl, idOn |-> idOn, a |-> a, o |-> o,
     place |-> "doc", download |-> FALSE, filename |-> NoFile, native |-> TRUE,
     wrapReload |-> FALSE]

\* a guard that refuses only the absent element
RejectedMissingOnly(c) == c.place = "missing"

\* HighlightIt.highlight, lines 2225-2230: no element, a hidden mirror
\* (class highlightit-original), or an element inside a canonical container
Rejected(c) == c.place \in {"missing", "mirror", "inside"}

\* element.parentNode / element.parentElement is an element
HasParent(c) == c.place # "orphan"

\* HighlightIt.highlight, lines 2301-2305: the closest canonical container of
\* the element passed in, or that element.  A code inside a pre is wrapped by
\* createCodeContainer; any other element was replaced at line 522 and has no
\* ancestor.  init returns nothing.
Returned(c) ==
    IF c.entry = "init" THEN "undefined"
    ELSE IF c.tag = "code" THEN "container" ELSE "element"

\* the source element: a code inside a pre or another element (tag), whether
\* its class names highlight-it (hl), and where the author's id sits
DivPlain == <<"div", TRUE, "none">>
DivWithId == <<"div", TRUE, "el">>
CodeWithId == <<"code", TRUE, "el">>
PreWithId == <<"code", TRUE, "pre">>
OtherClassWithId == <<"div", FALSE, "el">>

ShareWays == {<<FALSE, FALSE>>, <<TRUE, FALSE>>, <<FALSE, TRUE>>}

InitConfig(sh, share, lines, lineStart, language, autoDetect) ==
    Config("init", sh[1], sh[2], sh[3],
           Attrs(TRUE, share[1], lines, lineStart, language, FALSE, FALSE),
           Options(autoDetect, TRUE, TRUE, FALSE, share[2], FALSE, <<>>, ""))

\* init() over live elements: every place of the id, every way to ask for
\* sharing, with and without line numbers
IdentityConfigs ==
    {InitConfig(sh, share, lines, <<>>, "javascript", TRUE) :
        sh \in {DivPlain, DivWithId, CodeWithId, OtherClassWithId},
        share \in ShareWays, lines \in BOOLEAN}

\* no configured language, with and without auto-detection
LanguageConfigs ==
    {InitConfig(DivPlain, <<FALSE, FALSE>>, lines, <<>>, "", autoDetect) :
        lines \in BOOLEAN, autoDetect \in BOOLEAN}
      \cup
    {InitConfig(DivPlain, <<FALSE, TRUE>>, FALSE, <<>>, "", autoDetect) :
        autoDetect \in BOOLEAN}

\* data-line-start
LineStartConfigs ==
    {InitConfig(DivPlain, <<FALSE, FALSE>>, FALSE, ls, "javascript", TRUE) :
        ls \in {<<"1", "0">>, <<"-", "1">>, <<"0">>}}
      \cup
    {InitConfig(DivPlain, <<TRUE, FALSE>>, FALSE, <<"1", "0">>, "javascript", TRUE)}

InitConfigs == IdentityConfigs \cup LanguageConfigs \cup LineStartConfigs

\* HighlightIt.highlight(el, options) on an element without data attributes
HighlightConfigs ==
    {Config("highlight", sh[1], sh[2], sh[3],
            Attrs(FALSE, FALSE, FALSE, <<>>, "", FALSE, FALSE),
            Options(TRUE, TRUE, TRUE, lines, share, reload, ls, "javascript")) :
        sh \in {DivPlain, PreWithId}, lines \in BOOLEAN, share \in {TRUE},
        reload \in BOOLEAN, ls \in {<<>>}}
      \cup
    {Config("highlight", "div", TRUE, "none",
            Attrs(FALSE, FALSE, FALSE, <<>>, "", FALSE, FALSE),
            Options(TRUE, TRUE, TRUE, FALSE, FALSE, reload, <<10>>, "javascript")) :
        reload \in BOOLEAN}

\* where the element is when the call is made: in the document ("doc"),
\* absent (highlight(null)), a hidden mirror, inside a canonical container,
\* or without a parent node (never attached, detached when an enclosing
\* matched element had its textContent set at line 367, or replaced by an
\* earlier highlight call at line 522)
PlacementConfigs ==
    {[Config("highlight", sh[1], sh[2], sh[3],
             Attrs(FALSE, FALSE, FALSE, <<>>, "", FALSE, FALSE),
             Options(TRUE, TRUE, TRUE, TRUE, TRUE, TRUE, <<>>, "javascript"))
         EXCEPT !.place = place] :
        sh \in {DivPlain, CodeWithId}, place \in {"missing", "mirror", "inside", "orphan"}}
      \cup
    {[InitConfig(sh, <<FALSE, FALSE>>, FALSE, ls, "javascript", TRUE)
         EXCEPT !.place = "orphan"] :
        sh \in {DivPlain, CodeWithId}, ls \in {<<>>, <<"1", "0">>}}

\* data-language names a language the engine does not know, so that
\* hljs.highlight throws; with and without auto-detection
FailingLanguageConfigs ==
    {Config("init", "div", TRUE, "none",
            Attrs(FALSE, FALSE, lines, <<>>, "cobol", FALSE, FALSE),
            Options(autoDetect, TRUE, TRUE, FALSE, FALSE, FALSE, <<>>, "")) :
        lines \in BOOLEAN, autoDetect \in BOOLEAN}

\* the copy button switched off, by data-no-copy or by addCopyButton: false,
\* with and without a header, a share button and a download button
NoCopyConfigs ==
    {[Config("init", "div", TRUE, "el",
             Attrs(FALSE, share, FALSE, <<>>, "javascript", noHeader, byAttr),
             [Options(TRUE, TRUE, TRUE, FALSE, FALSE, FALSE, <<>>, "")
                 EXCEPT !.addCopyButton = byAttr])
         EXCEPT !.download = download] :
        share \in BOOLEAN, noHeader \in BOOLEAN, byAttr \in BOOLEAN,
        download \in BOOLEAN}

\* blocks with a download button: header or floating buttons, a code inside
\* a pre or another element, with and without a filename, a language of the
\* extension table, one outside it, or none
DownloadConfigs ==
    {[Config("init", sh[1], sh[2], sh[3],
             Attrs(FALSE, FALSE, FALSE, <<>>, language, noHeader, FALSE),
             Options(TRUE, TRUE, TRUE, FALSE, FALSE, FALSE, <<>>, ""))
         EXCEPT !.download = TRUE, !.filename = file] :
        sh \in {DivPlain, CodeWithId}, language \in {"", "python", "plaintext"},
        noHeader \in BOOLEAN,
        file \in {NoFile, File("app.py", <<"app", "py">>)}}

\* live header-less blocks with a configured language: floating buttons, or
\* none at all when copy is switched off and there is no download
\* pages of a browser without window.MutationObserver: live blocks, and a
\* block that is not live
PolyfillConfigs ==
    {[InitConfig(sh, <<FALSE, FALSE>>, FALSE, <<>>, language, TRUE)
         EXCEPT !.native = FALSE] :
        sh \in {DivPlain, CodeWithId}, language \in {"", "javascript"}}
      \cup
    {[Config("init", "div", TRUE, "none",
             Attrs(FALSE, FALSE, FALSE, <<>>, "javascript", FALSE, FALSE),
             Options(TRUE, TRUE, TRUE, FALSE, FALSE, FALSE, <<>>, ""))
         EXCEPT !.native = FALSE]}

\* live blocks with a gutter whose data-line-start is no number, or starts
\* with one
NonNumericLineStartConfigs ==
    {InitConfig(DivPlain, <<FALSE, FALSE>>, FALSE, ls, "javascript", TRUE) :
        ls \in {<<"x">>, <<"3", "x">>}}

LiveFloatingConfigs ==
    {[Config("init", "div", TRUE, "none",
             Attrs(TRUE, FALSE, FALSE, <<>>, "python", TRUE, noCopy),
             Options(TRUE, TRUE, TRUE, FALSE, FALSE, FALSE, <<>>, ""))
         EXCEPT !.download = download] :
        noCopy \in BOOLEAN, download \in BOOLEAN}

\* live blocks with data-filename, with and without data-language
FilenameConfigs ==
    {[InitConfig(DivPlain, <<FALSE, FALSE>>, FALSE, <<>>, language, autoDetect)
         EXCEPT !.filename = File("app.py", <<"app", "py">>)] :
        language \in {"", "python"}, autoDetect \in BOOLEAN}

Configs ==
    InitConfigs \cup HighlightConfigs \cup PlacementConfigs \cup FailingLanguageConfigs
        \cup NoCopyConfigs \cup FilenameConfigs \cup DownloadConfigs
        \cup LiveFloatingConfigs \cup PolyfillConfigs
        \cup NonNumericLineStartConfigs

HasMirror == pc = "done" /\ WithLiveUpdates(cfg)

Init ==
    /\ cfg \in Configs
    /\ pc = "raw"
    /\ srcText \in FirstTexts
    /\ mirrorText = <<>>
    /\ blk = NormalizedBlock(cfg, <<>>)
    /\ timer = [pending |-> 0, handle |-> FALSE]
    /\ lastProcessedCode = <<>>
    /\ detectedLanguage = ""
    /\ muts = 0
    /\ runs = 0
    /\ fires = 0
    /\ lastPass = "none"
    /\ dataset = cfg.a
    /\ returned = "none"
    /\ location = <<>>
    /\ shared = [id |-> <<>>, line |-> [kind |-> "null", n |-> 0]]
    /\ anchor = [parsed |-> FALSE, hash |-> <<>>, lineNumber |-> [kind |-> "null", n |-> 0]]
    /\ target = FALSE
    /\ retry = NoRetry
    /\ call = NoCall
    /\ bulk = NoBulk
    /\ page = NoPage

\* HighlightIt.highlight, lines 2225-2233: the call is refused and gives the
\* element back
HighlightRejected ==
    /\ pc = "raw"
    /\ cfg.entry = "highlight"
    /\ Rejected(cfg)
    /\ pc' = "rejected"
    /\ returned' = "element"
    /\ UNCHANGED <<cfg, srcText, mirrorText, blk, timer, lastProcessedCode,
                   detectedLanguage, muts, runs, fires, lastPass, dataset, anchorVars, helperVars>>

\* processElement on an element without a parent: highlight() has written its
\* options, lines 366-373 have run, then element.parentElement.tagName (377)
\* or element.parentNode.insertBefore / replaceChild (470, 522) is a TypeError
\* that no caller catches
ProcessElementThrows ==
    /\ pc = "raw"
    /\ cfg.entry = "highlight" => ~Rejected(cfg)
    /\ ~HasParent(cfg)
    /\ pc' = "thrown"
    /\ srcText' = Trim(srcText)
    /\ dataset' = WithLineStart(SourceAttrs(cfg))
    /\ returned' = "TypeError"
    /\ UNCHANGED <<cfg, mirrorText, blk, timer, lastProcessedCode, detectedLanguage,
                   muts, runs, fires, lastPass, anchorVars, helperVars>>

\* setupLiveUpdates in a browser without window.MutationObserver: line 810
\* finds the polyfill, line 933 evaluates the global name MutationObserver,
\* which is a ReferenceError that no caller catches.  The mirror, the
\* container and its controls exist by then; the code is not highlighted and
\* nothing is observed.
SetupLiveUpdatesThrows ==
    /\ pc = "raw"
    /\ cfg.entry = "highlight" => ~Rejected(cfg)
    /\ HasParent(cfg)
    /\ Observing(cfg) /\ ~cfg.native
    /\ pc' = "thrown"
    /\ dataset' = WithLineStart(SourceAttrs(cfg))
    /\ returned' = "ReferenceError"
    /\ srcText' = Trim(srcText)
    /\ mirrorText' = IF WithLiveUpdates(cfg) THEN Trim(srcText) ELSE <<>>
    /\ blk' = BeforeSetup(cfg, Trim(srcText))
    /\ UNCHANGED <<cfg, timer, lastProcessedCode, detectedLanguage, muts, runs, fires,
                   lastPass, anchorVars, helperVars>>

\* the page sets the text of the mirror of a block whose setup threw: no
\* observer exists, nothing is scheduled
MutateUnobserved(t) ==
    /\ pc = "thrown" /\ returned = "ReferenceError"
    /\ WithLiveUpdates(cfg)
    /\ muts < MaxMut
    /\ muts' = muts + 1
    /\ mirrorText' = t
    /\ UNCHANGED <<cfg, pc, srcText, blk, timer, lastProcessedCode, detectedLanguage,
                   runs, fires, lastPass, dataset, returned, anchorVars, helperVars>>

\* processElement and highlightElement, with the microtasks they leave
ProcessElement ==
    /\ pc = "raw"
    /\ cfg.entry = "highlight" => ~Rejected(cfg)
    /\ HasParent(cfg)
    /\ Observing(cfg) => cfg.native
    /\ pc' = "done"
    /\ dataset' = WithLineStart(SourceAttrs(cfg))
    /\ returned' = Returned(cfg)
    /\ srcText' = Trim(srcText)
    /\ mirrorText' = IF WithLiveUpdates(cfg) THEN Trim(srcText) ELSE <<>>
    /\ blk' = highlightElement(cfg, Trim(srcText))
    /\ detectedLanguage' = IF Observing(cfg) THEN FirstDetected(cfg, Trim(srcText)) ELSE ""
    /\ timer' = Feedback(cfg, timer, TRUE)
    /\ UNCHANGED <<cfg, lastProcessedCode, muts, runs, fires, lastPass>>
    /\ UNCHANGED <<anchorVars, helperVars>>

\* the page sets the text of the hidden mirror
Mutate(t) ==
    /\ HasMirror
    /\ muts < MaxMut
    /\ muts' = muts + 1
    /\ mirrorText' = t
    /\ blk' = [blk EXCEPT !.ev = {}]
    /\ IF Observing(cfg)
       THEN /\ timer' = ObserverCallback(timer)
            /\ runs' = IF timer.pending = 0 THEN runs + 1 ELSE runs
       ELSE UNCHANGED <<timer, runs>>
    /\ UNCHANGED <<cfg, pc, srcText, lastProcessedCode, detectedLanguage, fires, lastPass>>
    /\ UNCHANGED <<dataset, returned, anchorVars, helperVars>>

\* the page sets the text of the visible code element of a block without
\* mirror: the element then holds plain text
MutateCode(t) ==
    /\ pc = "done"
    /\ WatchesCode(cfg)
    /\ muts < MaxMut
    /\ muts' = muts + 1
    /\ blk' = [blk EXCEPT !.ev = {}, !.code = Markup(t, "", "text")]
    /\ timer' = ObserverCallback(timer)
    /\ runs' = IF timer.pending = 0 THEN runs + 1 ELSE runs
    /\ UNCHANGED <<cfg, pc, srcText, mirrorText, lastProcessedCode, detectedLanguage,
                   fires, lastPass>>
    /\ UNCHANGED <<dataset, returned, anchorVars, helperVars>>

\* the page appends a chunk to the element it passed in (README, Live
\* Updates): after normalisation that element is out of the document
MutateSource(chunk) ==
    /\ pc = "done"
    /\ cfg.tag = "div"
    /\ muts < MaxMut
    /\ srcText \o chunk \in Texts
    /\ muts' = muts + 1
    /\ srcText' = srcText \o chunk
    /\ blk' = [blk EXCEPT !.ev = {}]
    /\ UNCHANGED <<cfg, pc, mirrorText, timer, lastProcessedCode, detectedLanguage,
                   runs, fires, lastPass>>
    /\ UNCHANGED <<dataset, returned, anchorVars, helperVars>>

\* a debounce timer fires: rehighlight() on the text of the element that is
\* observed, timeout = null, then microtasks
TimerFireOn(text) ==
    /\ timer.pending > 0
    /\ LET r == rehighlight(cfg, [blk EXCEPT !.ev = {}], lastProcessedCode,
                            detectedLanguage, text)
       IN /\ blk' = IF r.micro THEN AfterBlockId(cfg, r.b, r.last) ELSE r.b
          /\ lastProcessedCode' = r.last
          /\ detectedLanguage' = r.det
          /\ lastPass' = r.kind
    /\ timer' = Feedback(cfg, [pending |-> timer.pending - 1, handle |-> FALSE],
                         blk'.writes # blk.writes)
    /\ fires' = fires + 1
    /\ UNCHANGED <<cfg, pc, srcText, mirrorText, muts, runs>>
    /\ UNCHANGED <<dataset, returned, anchorVars, helperVars>>

\* lines 840-841: the timer of a block that observes its mirror
TimerFire == ~WatchesCode(cfg) /\ TimerFireOn(mirrorText)

\* the timer of a block that observes its visible code element
CodeTimerFire == WatchesCode(cfg) /\ TimerFireOn(blk.code.text)

\* a digest settles and its reaction runs; digests settle in any order
Settle(i) ==
    /\ i \in 1..Len(blk.tasks)
    /\ blk' = Resume(cfg, [blk EXCEPT !.tasks = RemoveAt(@, i), !.ev = {}], blk.tasks[i])
    /\ timer' = Feedback(cfg, timer, blk'.writes # blk.writes)
    /\ UNCHANGED <<cfg, pc, srcText, mirrorText, lastProcessedCode, detectedLanguage,
                   muts, runs, fires, lastPass>>
    /\ UNCHANGED <<dataset, returned, anchorVars, helperVars>>

Chunks == {<<"a">>, <<"b">>, <<NL, "a">>, <<NL, "b">>}

Next ==
    \/ HighlightRejected
    \/ ProcessElementThrows
    \/ SetupLiveUpdatesThrows
    \/ ProcessElement
    \/ \E t \in Texts : Mutate(t)
    \/ \E t \in Texts : MutateUnobserved(t)
    \/ \E ch \in Chunks : MutateSource(ch)
    \/ TimerFire
    \/ \E i \in 1..MaxMut + 3 : Settle(i)

Spec == Init /\ [][Next]_vars

\* ------------------------------------------------- the fragment round trip
\* a page with one unprocessed block, whose URL has no fragment
RawPage ==
    /\ cfg = InitConfig(CodeWithId, <<TRUE, FALSE>>, TRUE, <<>>, "javascript", TRUE)
    /\ pc = "raw"
    /\ srcText = <<>>
    /\ mirrorText = <<>>
    /\ blk = NormalizedBlock(cfg, <<>>)
    /\ timer = [pending |-> 0, handle |-> FALSE]
    /\ lastProcessedCode = <<>>
    /\ detectedLanguage = ""
    /\ muts = 0
    /\ runs = 0
    /\ fires = 0
    /\ lastPass = "none"
    /\ dataset = cfg.a
    /\ returned = "none"

AnchorInit ==
    /\ RawPage
    /\ location = <<>>
    /\ shared = [id |-> <<>>, line |-> [kind |-> "null", n |-> 0]]
    /\ anchor = [parsed |-> FALSE, hash |-> <<>>, lineNumber |-> [kind |-> "null", n |-> 0]]
    /\ target = FALSE
    /\ retry = NoRetry
    /\ call = NoCall
    /\ bulk = NoBulk
    /\ page = NoPage

\* the URL copied by a per-line share button is opened:
\* url.hash = `${currentBlockId}_${lineNumber}`
LineShareClick(id, n) ==
    /\ location = <<>>
    /\ location' = id \o <<"_">> \o IntToStr(n)
    /\ shared' = [id |-> id, line |-> [kind |-> "num", n |-> n]]
    /\ UNCHANGED <<anchor, target, retry, blockVars, helperVars>>

\* the URL copied by the block's share button is opened: url.hash = currentId
BlockShareClick(id) ==
    /\ location = <<>>
    /\ location' = id
    /\ shared' = [id |-> id, line |-> [kind |-> "null", n |-> 0]]
    /\ UNCHANGED <<anchor, target, retry, blockVars, helperVars>>

MaxAttempts == 10

RetryDelayFlat(attempts) == 300

\* line 271: the delay of the retry scheduled by scrollToAnchor(attempts)
RetryDelay(attempts) == 300 * (attempts + 1)

\* scrollToAnchor(attempts), lines 245-273: the target is looked up and a
\* timeout is set, for the scroll or for the next attempt, or nothing is
FindTarget(attempts) ==
    IF target
    THEN [retry EXCEPT !.timer = "scroll", !.attempts = attempts, !.delay = 100]
    ELSE IF attempts < MaxAttempts
         THEN [retry EXCEPT !.timer = "retry", !.attempts = attempts,
                            !.delay = RetryDelay(attempts), !.retries = @ + 1]
         ELSE [retry EXCEPT !.timer = "none", !.attempts = attempts]

\* scrollToAnchor() on load or hashchange
ScrollToAnchor ==
    /\ location # <<>>
    /\ ~anchor.parsed
    /\ anchor' = ParseAnchor(location)
    /\ retry' = FindTarget(0)
    /\ UNCHANGED <<location, shared, target, blockVars, helperVars>>

\* the timeout of line 267: scrollToAnchor(attempts + 1)
RetryFire ==
    /\ retry.timer = "retry"
    /\ anchor' = ParseAnchor(location)
    /\ retry' = FindTarget(retry.attempts + 1)
    /\ UNCHANGED <<location, shared, target, blockVars, helperVars>>

\* the timeout of lines 256 and 263: scrollToHighlightedElement
ScrollFire ==
    /\ retry.timer = "scroll"
    /\ retry' = [retry EXCEPT !.timer = "none", !.scrolled = TRUE]
    /\ UNCHANGED <<location, shared, anchor, target, blockVars, helperVars>>

\* the block the fragment names is rendered: its id is in the document
TargetAppears ==
    /\ ~target
    /\ target' = TRUE
    /\ UNCHANGED <<location, shared, anchor, retry, blockVars, helperVars>>

AnchorNext ==
    \/ \E id \in Identities, n \in LineNumbers : LineShareClick(id, n)
    \/ \E id \in Identities : BlockShareClick(id)
    \/ ScrollToAnchor
    \/ RetryFire
    \/ ScrollFire
    \/ TargetAppears

AnchorSpec == AnchorInit /\ [][AnchorNext]_vars

\* a page opened with a fragment in its URL, whose block may not be rendered
\* yet; timeouts that are due do run
Fragments == {<<"x">>, <<"x", "_", "7">>, <<"h", "-", "7", "_", "1", "2">>}

RetryInit ==
    /\ RawPage
    /\ location \in Fragments
    /\ shared = [id |-> <<>>, line |-> [kind |-> "null", n |-> 0]]
    /\ anchor = [parsed |-> FALSE, hash |-> <<>>, lineNumber |-> [kind |-> "null", n |-> 0]]
    /\ target \in BOOLEAN
    /\ retry = NoRetry
    /\ call = NoCall
    /\ bulk = NoBulk
    /\ page = NoPage

RetryNext == ScrollToAnchor \/ RetryFire \/ ScrollFire \/ TargetAppears

RetrySpec ==
    RetryInit /\ [][RetryNext]_vars /\ WF_vars(RetryFire) /\ WF_vars(ScrollFire)

\* ----------------------------------------------------------- generateHash
BASE62_CHARS ==
    <<"0", "1", "2", "3", "4", "5", "6", "7", "8", "9",
      "a", "b", "c", "d", "e", "f", "g", "h", "i", "j", "k", "l", "m",
      "n", "o", "p", "q", "r", "s", "t", "u", "v", "w", "x", "y", "z",
      "A", "B", "C", "D", "E", "F", "G", "H", "I", "J", "K", "L", "M",
      "N", "O", "P", "Q", "R", "S", "T", "U", "V", "W", "X", "Y", "Z">>

HashLength == 12
DigestBytes == 32
MaxInput == 2
MaxTail == 2

\* String.prototype.padStart(n, c) and slice(-n)
RECURSIVE padStart(_, _, _)
padStart(str, n, c) == IF Len(str) >= n THEN str ELSE padStart(<<c>> \o str, n, c)

SliceLast(str, n) ==
    IF Len(str) <= n THEN str ELSE SubSeq(str, Len(str) - n + 1, Len(str))

\* a BigInt is the sequence of its bytes, most significant first; value / d
\* and value % d by long division
RECURSIVE DivMod(_, _, _)
DivMod(value, d, carry) ==
    IF value = <<>> THEN [q |-> <<>>, r |-> carry]
    ELSE LET cur == carry * 256 + Head(value)
             rest == DivMod(Tail(value), d, cur % d)
         IN [q |-> <<cur \div d>> \o rest.q, r |-> rest.r]

IsZero(value) == \A i \in 1..Len(value) : value[i] = 0

\* lines 123-131: while (value > 0 || base62Hash.length < 12)
RECURSIVE Base62Loop(_, _)
Base62Loop(value, base62Hash) ==
    IF IsZero(value) /\ Len(base62Hash) >= HashLength THEN base62Hash
    ELSE LET dm == DivMod(value, 62, 0)
             digit == <<BASE62_CHARS[dm.r + 1]>> \o base62Hash
         IN Base62Loop(dm.q,
                       IF IsZero(dm.q) /\ Len(digit) < HashLength
                       THEN <<"0">> \o digit ELSE digit)

\* lines 116-133, on the bytes of the digest
Base62Hash(hashArray) ==
    padStart(SliceLast(Base62Loop(hashArray, <<>>), HashLength), HashLength, "0")

\* String.prototype.charCodeAt for the characters of the inputs
CharCodeAt(c) == CASE c = "a" -> 97 [] c = "z" -> 122 [] c = NL -> 10 [] OTHER -> 63

\* a 32-bit integer is its two 16-bit halves.  (hash << 5) - hash + char,
\* then hash & hash: 31 * hash + char, reduced to 32 bits
HashStep(hash, char) ==
    LET lo == hash.lo * 31 + char
        hi == hash.hi * 31 + (lo \div 65536)
    IN [hi |-> hi % 65536, lo |-> lo % 65536]

RECURSIVE HashFold(_, _)
HashFold(str, hash) ==
    IF str = <<>> THEN hash ELSE HashFold(Tail(str), HashStep(hash, CharCodeAt(Head(str))))

\* Math.abs of the signed 32-bit integer
MathAbs(hash) ==
    IF hash.hi < 32768 THEN hash
    ELSE [hi |-> (65535 - hash.hi + (IF hash.lo = 0 THEN 1 ELSE 0)) % 65536,
          lo |-> (65536 - hash.lo) % 65536]

HexDigits == <<"0", "1", "2", "3", "4", "5", "6", "7", "8", "9", "a", "b", "c", "d", "e", "f">>

\* Number.prototype.toString(16)
RECURSIVE ToHex(_)
ToHex(n) == IF n < 16 THEN <<HexDigits[n + 1]>> ELSE ToHex(n \div 16) \o <<HexDigits[(n % 16) + 1]>>

ToString16(hash) ==
    IF hash.hi = 0 THEN ToHex(hash.lo)
    ELSE ToHex(hash.hi) \o padStart(ToHex(hash.lo), 4, "0")

\* polyfills.simpleHash
simpleHash(str) ==
    IF str = <<>> THEN <<"h", "-">> \o padStart(<<>>, 12, "0")
    ELSE LET hash == HashFold(str, [hi |-> 0, lo |-> 0])
             hashStr == padStart(ToString16(MathAbs(hash)), 12, "0")
         IN <<"h", "-">> \o SubSeq(hashStr, 1, 12)

\* the page's platform: crypto.subtle present, BigInt present, the digest
\* promise rejecting
Platforms == [subtle : BOOLEAN, bigInt : BOOLEAN, rejects : BOOLEAN]

\* the inputs hashed, among them two whose hash leaves 32 bits, and the
\* digests crypto.subtle.digest can give: 32 bytes, among them the small
\* values that need padding
HashInputs ==
    UNION {Strings({"a", "z"}, n) : n \in 0..MaxInput}
        \cup {[i \in 1..7 |-> "a"], [i \in 1..7 |-> "z"]}

Digests ==
    {[i \in 1..DigestBytes |->
        IF i > DigestBytes - Len(tail) THEN tail[i - (DigestBytes - Len(tail))] ELSE fill] :
        fill \in {0, 255},
        tail \in UNION {Strings({0, 1, 61, 62, 255}, n) : n \in 0..MaxTail}}

generateHash(input, platform, hashArray) ==
    IF ~platform.subtle THEN simpleHash(input)
    ELSE IF platform.rejects THEN simpleHash(input)
    ELSE IF ~platform.bigInt THEN simpleHash(input)
    ELSE Base62Hash(hashArray)

\* a call of generateHash on a platform, with the digest the platform gives
GenerateHash(input, platform, hashArray) ==
    /\ call = NoCall
    /\ call' = [fn |-> "generateHash", input |-> input,
                out |-> generateHash(input, platform, hashArray)]
    /\ UNCHANGED <<blockVars, anchorVars, bulk, page>>

\* -------------------------------------------------------------- escapeHtml
MaxHtml == 3

\* the grave accent, U+0060, as a character of a text
Grave == "U+0060"

\* the character class of the regular expression, and cache.htmlEscapes
SpecialChars == {"&", "<", ">", "\"", "'", Grave, "=", "/"}

htmlEscapes(char) ==
    CASE char = "&" -> <<"&", "a", "m", "p", ";">>
      [] char = "<" -> <<"&", "l", "t", ";">>
      [] char = ">" -> <<"&", "g", "t", ";">>
      [] char = "\"" -> <<"&", "q", "u", "o", "t", ";">>
      [] char = "'" -> <<"&", "#", "3", "9", ";">>
      [] char = "/" -> <<"&", "#", "x", "2", "F", ";">>
      [] char = Grave -> <<"&", "#", "x", "6", "0", ";">>
      [] char = "=" -> <<"&", "#", "x", "3", "D", ";">>

\* String.prototype.replace with a global pattern of one character class:
\* one scan of the input, each match replaced by what the callback gives
RECURSIVE ReplaceMatches(_, _)
ReplaceMatches(str, class) ==
    IF str = <<>> THEN <<>>
    ELSE (IF Head(str) \in class THEN htmlEscapes(Head(str)) ELSE <<Head(str)>>)
             \o ReplaceMatches(Tail(str), class)

\* replacement character by character, the ampersand last: each pass scans
\* the result of the pass before it
EscapeInTurn(html) ==
    LET f[k \in 0..7] ==
            IF k = 0 THEN html
            ELSE ReplaceMatches(f[k - 1], {<<"<", ">", "\"", "'", Grave, "=", "/">>[k]})
    IN ReplaceMatches(f[7], {"&"})

escapeHtml(html) == ReplaceMatches(html, SpecialChars)

IsPrefix(p, str) == Len(p) <= Len(str) /\ SubSeq(str, 1, Len(p)) = p

\* what the HTML parser reads back from markup that uses these character
\* references: the text of the node
RECURSIVE TextOf(_)
TextOf(markup) ==
    IF markup = <<>> THEN <<>>
    ELSE IF \E c \in SpecialChars : IsPrefix(htmlEscapes(c), markup)
         THEN LET c == CHOOSE x \in SpecialChars : IsPrefix(htmlEscapes(x), markup)
              IN <<c>> \o TextOf(SubSeq(markup, Len(htmlEscapes(c)) + 1, Len(markup)))
         ELSE <<Head(markup)>> \o TextOf(Tail(markup))

Count(str, S) == Cardinality({i \in 1..Len(str) : str[i] \in S})

\* the strings escaped: the special characters and the characters of a
\* character reference, and text that already holds a reference
HtmlInputs ==
    UNION {Strings(SpecialChars \cup {"a", ";", "#"}, n) : n \in 0..MaxHtml}
        \cup {<<"&", "l", "t", ";">>, <<"&", "a", "m", "p", ";", "<">>}

EscapeHtmlCall(html) ==
    /\ call = NoCall
    /\ call' = [fn |-> "escapeHtml", input |-> html, out |-> escapeHtml(html)]
    /\ UNCHANGED <<blockVars, anchorVars, bulk, page>>

\* one call of a helper from the page's script
HelperNext ==
    /\ call = NoCall
    /\ \/ \E input \in HashInputs, platform \in Platforms, hashArray \in Digests :
             GenerateHash(input, platform, hashArray)
       \/ \E html \in HtmlInputs : EscapeHtmlCall(html)

HelperSpec == AnchorInit /\ [][HelperNext]_vars

\* -------------------------------------------------------------------- init
chunkSize == 50
MaxElements == 120

\* processChunk(startIndex), lines 60-80: elements are numbered from 1 in
\* document order, startIndex of them are behind.  processElement throws on
\* the first live element of a page without window.MutationObserver
\* (SetupLiveUpdatesThrows), which ends the loop and the callback.
processChunk(b, startIndex) ==
    LET endIndex == IF startIndex + chunkSize < b.n THEN startIndex + chunkSize ELSE b.n
        throws == ~b.native /\ b.firstLive > startIndex /\ b.firstLive <= endIndex
        last == IF throws THEN b.firstLive - 1 ELSE endIndex
        b1 == [b EXCEPT !.processed = @ \o [k \in 1..(last - startIndex) |-> startIndex + k],
                        !.ticks = @ + 1, !.lastTick = last - startIndex]
    IN IF throws THEN [b1 EXCEPT !.phase = "thrown"]
       ELSE IF endIndex < b.n THEN [b1 EXCEPT !.phase = "frame"]
       ELSE [b1 EXCEPT !.phase = "done", !.navigated = b.hash]

\* HighlightIt.init() on a page with n matched elements: the first chunk runs
\* inside the call
InitCall(n, hash, native, firstLive) ==
    /\ bulk.phase = "idle"
    /\ bulk' = processChunk([NoBulk EXCEPT !.n = n, !.hash = hash, !.native = native,
                                           !.firstLive = firstLive], 0)
    /\ UNCHANGED <<blockVars, anchorVars, call, page>>

\* the animation frame requested at line 75
AnimationFrame ==
    /\ bulk.phase = "frame"
    /\ bulk' = processChunk(bulk, Len(bulk.processed))
    /\ UNCHANGED <<blockVars, anchorVars, call, page>>

\* the positions of the first live element that the model tries: none, the
\* ends of the page and the ends of the first chunk
FirstLives(n) == {0, 1, chunkSize, chunkSize + 1, n} \cap 0..n

InitNext ==
    \/ /\ bulk.phase = "idle"
       /\ \E n \in 0..MaxElements, hash \in BOOLEAN, native \in BOOLEAN :
             \E firstLive \in FirstLives(n) : InitCall(n, hash, native, firstLive)
    \/ AnimationFrame

InitSpec == AnchorInit /\ [][InitNext]_vars /\ WF_vars(AnimationFrame)

\* ------------------------------------------- the element a block observes
\* a code inside a pre inside a div.highlightit-container that the page wrote
\* with data-with-reload: processElement makes no mirror (line 364 reads the
\* code element's dataset), createCodeContainer returns that div (1088-1093),
\* highlightElement reads data-with-reload from it (621-622)
CodeWatchConfigs ==
    {[InitConfig(<<"code", TRUE, "none">>, <<share, FALSE>>, lines, <<>>, language, TRUE)
         EXCEPT !.a.reload = FALSE, !.wrapReload = TRUE] :
        share \in BOOLEAN, lines \in BOOLEAN, language \in {"javascript", ""}}

\* the same blocks written as live elements: processElement makes the mirror
MirrorWatchConfigs ==
    {InitConfig(DivPlain, <<share, FALSE>>, lines, <<>>, "javascript", TRUE) :
        share \in BOOLEAN, lines \in BOOLEAN}

WatchInit ==
    /\ cfg \in CodeWatchConfigs \cup MirrorWatchConfigs
    /\ pc = "raw"
    /\ srcText \in {<<"b">>, <<NL>> \o Body(2, "a") \o <<NL>>}
    /\ mirrorText = <<>>
    /\ blk = NormalizedBlock(cfg, <<>>)
    /\ timer = [pending |-> 0, handle |-> FALSE]
    /\ lastProcessedCode = <<>>
    /\ detectedLanguage = ""
    /\ muts = 0
    /\ runs = 0
    /\ fires = 0
    /\ lastPass = "none"
    /\ dataset = cfg.a
    /\ returned = "none"
    /\ location = <<>>
    /\ shared = [id |-> <<>>, line |-> [kind |-> "null", n |-> 0]]
    /\ anchor = [parsed |-> FALSE, hash |-> <<>>, lineNumber |-> [kind |-> "null", n |-> 0]]
    /\ target = FALSE
    /\ retry = NoRetry
    /\ call = NoCall
    /\ bulk = NoBulk
    /\ page = NoPage

WatchNext ==
    \/ ProcessElement
    \/ \E t \in Texts : Mutate(t)
    \/ \E t \in Texts : MutateCode(t)
    \/ TimerFire
    \/ CodeTimerFire
    \/ \E i \in 1..MaxMut + 3 : Settle(i)

\* a timeout that is set fires, a digest that was asked for settles
WatchSpec ==
    /\ WatchInit /\ [][WatchNext]_vars
    /\ WF_vars(TimerFire)
    /\ WF_vars(CodeTimerFire)
    /\ WF_vars(\E i \in 1..MaxMut + 3 : Settle(i))

\* --------------------------------------------- init over a processed page
\* textContent of a gutter: the numbers of its entries
RECURSIVE GutterText(_)
GutterText(g) == IF g = <<>> THEN <<>> ELSE IntToStr(Head(g).num) \o GutterText(Tail(g))

\* textContent of a container: the label of its header, the numbers of its
\* gutter, the text of its code (the buttons hold icons only)
ContainerText(b) ==
    (IF b.header /\ b.label # "" THEN <<b.label>> ELSE <<>>) \o GutterText(b.gutter)
        \o b.code.text

\* highlightElement, lines 665-797, on a container that exists
HighlightAgain(c, b, code) ==
    FirstHighlight(c,
                   [AddControls(c, HashForStaticShare(c, b, code), code)
                       EXCEPT !.withLines = WithLines(c)],
                   code)

\* processElement on an element that init matches again.  The code of a
\* code-inside-pre block keeps its class: line 367 replaces its markup by its
\* text, createCodeContainer returns the container it is in (1088-1093) and
\* highlightElement runs on that container.  The container made from another
\* element has the class highlight-it (line 480): line 367 replaces all its
\* children by its text, and lines 430-522 build a new container, with the
\* old one's id, from that text
ProcessElementAgain(c, b) ==
    IF c.tag = "code"
    THEN LET code == Trim(b.code.text) IN
         HighlightAgain(c, [b EXCEPT !.code = Markup(code, "", "text"), !.ev = {}], code)
    ELSE LET content == Trim(ContainerText(b)) IN
         HighlightAgain(c, [NormalizedBlock(c, content) EXCEPT !.cid = b.cid], content)

\* a second init() on the page, lines 57-83
InitAgain ==
    /\ pc = "done"
    /\ cfg.entry = "init" /\ cfg.hl /\ ~WithLiveUpdates(cfg)
    /\ pc' = "again"
    /\ blk' = ProcessElementAgain(cfg, blk)
    /\ UNCHANGED <<cfg, srcText, mirrorText, timer, lastProcessedCode, detectedLanguage,
                   muts, runs, fires, lastPass>>
    /\ UNCHANGED <<dataset, returned, anchorVars, helperVars>>

\* static blocks: a code inside a pre or a div, with and without header,
\* gutter and sharing
AgainConfigs ==
    {[InitConfig(<<tag, TRUE, "none">>, <<share, FALSE>>, lines, <<>>, "javascript", TRUE)
         EXCEPT !.a.reload = FALSE, !.a.noHeader = noHeader] :
        tag \in {"code", "div"}, share \in BOOLEAN, lines \in BOOLEAN, noHeader \in BOOLEAN}

AgainInit ==
    /\ cfg \in AgainConfigs
    /\ pc = "raw"
    /\ srcText \in FirstTexts
    /\ mirrorText = <<>>
    /\ blk = NormalizedBlock(cfg, <<>>)
    /\ timer = [pending |-> 0, handle |-> FALSE]
    /\ lastProcessedCode = <<>>
    /\ detectedLanguage = ""
    /\ muts = 0
    /\ runs = 0
    /\ fires = 0
    /\ lastPass = "none"
    /\ dataset = cfg.a
    /\ returned = "none"
    /\ location = <<>>
    /\ shared = [id |-> <<>>, line |-> [kind |-> "null", n |-> 0]]
    /\ anchor = [parsed |-> FALSE, hash |-> <<>>, lineNumber |-> [kind |-> "null", n |-> 0]]
    /\ target = FALSE
    /\ retry = NoRetry
    /\ call = NoCall
    /\ bulk = NoBulk
    /\ page = NoPage

AgainNext ==
    \/ ProcessElement
    \/ InitAgain
    \/ \E i \in 1..MaxMut + 3 : Settle(i)

AgainSpec == AgainInit /\ [][AgainNext]_vars

\* ------------------------------------------------ two live blocks on a page
MaxPageMut == 3

\* the elements of the page: a block with detected language, a shared block
\* with a gutter and an authored id, a shared block with a gutter and no id
PageConfigs ==
    {InitConfig(DivPlain, <<FALSE, FALSE>>, FALSE, <<>>, "", TRUE),
     InitConfig(DivWithId, <<TRUE, FALSE>>, TRUE, <<>>, "javascript", TRUE),
     InitConfig(DivPlain, <<TRUE, FALSE>>, TRUE, <<>>, "javascript", TRUE)}

PageTexts == {<<"b">>, Body(2, "a")}

\* processElement on one element of the page: its container, its mirror text
\* and the closure variables of setupLiveUpdates (lastProcessedCode,
\* detectedLanguage, timeout), lines 816-837
LiveBlock(c, text) ==
    [c |-> c, b |-> highlightElement(c, Trim(text)), text |-> Trim(text),
     last |-> <<>>, det |-> FirstDetected(c, Trim(text)), timeout |-> 0]

\* one timeout variable for every block: the handle set last, while pending
SharedTimeout(p, i) ==
    IF \E h \in p.timers : h.handle = p.next - 1 THEN p.next - 1 ELSE 0

\* `timeout` of line 817, a variable of the setupLiveUpdates call of block i
TimeoutOf(p, i) == p.blocks[i].timeout

\* the observer callback of block i, lines 933-939, on the timers of the
\* window: clearTimeout(timeout) of a set handle, then setTimeout
ObserverCallbackOf(p, i) ==
    LET old == TimeoutOf(p, i)
        kept == {h \in p.timers : old = 0 \/ h.handle # old}
    IN [p EXCEPT !.timers = kept \cup {[handle |-> p.next, block |-> i]},
                 !.next = @ + 1,
                 !.blocks[i].timeout = p.next]

\* init over the two elements, in document order; both start with the text t
PageLoad(c1, c2, t) ==
    /\ page.phase = "raw"
    /\ page' = [page EXCEPT !.phase = "live",
                            !.blocks = <<LiveBlock(c1, t), LiveBlock(c2, t)>>]
    /\ UNCHANGED <<blockVars, anchorVars, call, bulk>>

\* the page sets the text of the mirror of block i
PageMutate(i, t) ==
    /\ page.phase = "live"
    /\ page.muts < MaxPageMut
    /\ page' = [ObserverCallbackOf(page, i) EXCEPT !.blocks[i].text = t,
                                                   !.blocks[i].b.ev = {},
                                                   !.muts = @ + 1, !.last = i]
    /\ UNCHANGED <<blockVars, anchorVars, call, bulk>>

\* the timer h of the window fires: the pass of the block that set it, then
\* `timeout = null`, lines 935-938
PageTimerFire(h) ==
    /\ h \in page.timers
    /\ LET i == h.block
           k == page.blocks[i]
           r == rehighlight(k.c, [k.b EXCEPT !.ev = {}], k.last, k.det, k.text)
       IN page' = [page EXCEPT !.timers = @ \ {h},
                               !.blocks[i].b = IF r.micro THEN AfterBlockId(k.c, r.b, r.last)
                                               ELSE r.b,
                               !.blocks[i].last = r.last,
                               !.blocks[i].det = r.det,
                               !.blocks[i].timeout = 0,
                               !.last = i]
    /\ UNCHANGED <<blockVars, anchorVars, call, bulk>>

\* a digest asked for by block i settles and its reaction runs
PageSettle(i, n) ==
    /\ page.phase = "live"
    /\ n \in 1..Len(page.blocks[i].b.tasks)
    /\ LET k == page.blocks[i] IN
       page' = [page EXCEPT !.blocks[i].b = Resume(k.c, [k.b EXCEPT !.tasks = RemoveAt(@, n),
                                                                  !.ev = {}],
                                                   k.b.tasks[n]),
                            !.last = i]
    /\ UNCHANGED <<blockVars, anchorVars, call, bulk>>

\* element ids are unique in a document: at most one element has an id
PageNext ==
    \/ /\ page.phase = "raw"
       /\ \E c1, c2 \in PageConfigs, t \in PageTexts :
            /\ c1.idOn = "none" \/ c2.idOn = "none"
            /\ PageLoad(c1, c2, t)
    \/ \E i \in 1..2, t \in PageTexts : PageMutate(i, t)
    \/ \E h \in page.timers : PageTimerFire(h)
    \/ \E i \in 1..2, n \in 1..MaxPageMut + 3 : PageSettle(i, n)

PageSpec == AnchorInit /\ [][PageNext]_vars

\* ------------------------------------------------------------------ claims
\* nothing is pending: no debounce timer, no digest
Quiet == pc = "done" /\ timer.pending = 0 /\ blk.tasks = <<>>

\* no reconciliation pass waits for its asynchronous continuation
NoPassInFlight == \A i \in 1..Len(blk.tasks) : blk.tasks[i].kind # "updateBlockId"

\* the identity of a block by the priority order: data-original-id, else
\* the DOM id
IdentityOf(b) == IF b.orig # NoId THEN b.orig ELSE b.cid

\* C1: live-update convergence.  For a live block, once no debounce timer
\* and no hash resolution is pending, the visible code shows the mirror's
\* trimmed text, whenever that text is not empty.
C1_Convergence ==
    (Quiet /\ Observing(cfg) /\ Trim(mirrorText) # <<>>)
        => blk.code.text = Trim(mirrorText)

\* C2: after highlight(el, {withReload: true}) on an element that is not a
\* code inside a pre, when the page has changed nothing but el's own text and
\* nothing is pending any more, the visible block shows el's text.
C2_SourceTextShown ==
    (Quiet /\ cfg.entry = "highlight" /\ cfg.o.withReload /\ cfg.tag = "div" /\ runs = 0)
        => blk.code.text = Trim(srcText)

\* C3: debounce.  At most one timer is pending; every run of mutations
\* (mutations arriving while a timer is pending) gets exactly one timer
\* callback; and with no timer pending the last pass has read the text that
\* the last mutation left.
C3_Debounce ==
    /\ timer.pending <= 1
    /\ fires + timer.pending = runs
    /\ (pc = "done" /\ Observing(cfg) /\ timer.pending = 0 /\ runs > 0
            /\ Trim(mirrorText) # <<>>)
          => lastProcessedCode = Trim(mirrorText)

\* a run of two mutations was answered by one pass, which read the last text
C3_Witness ==
    /\ muts = 2 /\ runs = 1 /\ fires = 1 /\ lastPass = "run"
    /\ lastProcessedCode = Trim(mirrorText)

\* C4: idempotence.  A timer callback that finds the mirror's trimmed text
\* equal to the text of the previous pass writes nothing: markup, gutter,
\* identity, controls and their listeners, and pending work stay as they are.
C4_Idempotent ==
    [][(fires' = fires + 1 /\ lastProcessedCode # <<>>
            /\ Trim(mirrorText) = lastProcessedCode)
         => /\ blk'.code = blk.code
            /\ blk'.writes = blk.writes
            /\ blk'.gutter = blk.gutter
            /\ blk'.nn = blk.nn
            /\ blk'.cid = blk.cid
            /\ blk'.orig = blk.orig
            /\ blk'.share = blk.share
            /\ blk'.copy = blk.copy
            /\ blk'.label = blk.label
            /\ blk'.tasks = blk.tasks
            /\ lastProcessedCode' = lastProcessedCode]_vars

\* a callback has skipped a block that has a gutter and a share button
C4_Witness ==
    /\ lastPass = "skip" /\ fires >= 2
    /\ blk.gutter # <<>> /\ blk.share.present

\* one identity resolution by the priority order; a temporary id stands for
\* the hash that replaces it
C5_Resolved(e) ==
    IF e.orig # NoId THEN e.res = e.orig
    ELSE IF e.cid # NoId /\ e.cid # TempId THEN e.res = e.cid
    ELSE /\ e.res = HashOf(e.code) \/ (e.cid = TempId /\ e.res = TempId)
         /\ blk.cid = e.res

\* C5: identity resolution order.  Every resolution of the last step
\* (createShareButton, updateBlockId) gives data-original-id if present,
\* else the DOM id the container has when the result is put to use, else
\* the hash of the text, which is then the container's id; and a click on
\* the block share button or on a line share button gives the same id.
C5_IdentityOrder ==
    pc = "done" =>
        /\ \A e \in blk.ev : C5_Resolved(e)
        /\ blk.share.present =>
             \A i \in 1..Len(blk.share.lis) :
                 /\ ClickId(blk.share.lis[i], blk) = IdentityOf(blk)
                 /\ IdentityOf(blk) # NoId
        /\ \A j \in 1..Len(blk.gutter) :
             blk.gutter[j].share =>
                 LineClickId(blk) = IdentityOf(blk) /\ IdentityOf(blk) # NoId

\* C6: identity stability.  A block made from a source element that had a
\* DOM id and asked for live updates resolves to that id wherever its
\* identity is resolved, and its container's DOM id is never a content hash
\* or a temporary id.
C6_StableIdentity ==
    (pc = "done" /\ WithLiveUpdates(cfg) /\ cfg.idOn # "none") =>
        /\ ~IsHash(blk.cid)
        /\ blk.cid # TempId
        /\ \A e \in blk.ev : e.res = AuthorId
        /\ (blk.share.present => IdentityOf(blk) = AuthorId)

\* C7: gutter count.  With line numbers on, after the initial render and
\* whenever no pass waits for its continuation, the gutter has one entry per
\* line of the trimmed text the block shows (the text of the pass that
\* completed last).
C7_GutterCount ==
    (pc = "done" /\ blk.withLines /\ NoPassInFlight)
        => Len(blk.gutter) = LineCount(blk.code.text)

\* C8: gutter incrementality.  A timer callback that runs a pass from N
\* entries to M lines creates max(M - N, 0) entry nodes, leaves M entries
\* (so max(N - M, 0) are removed) and keeps the first min(N, M) node
\* instances in place; the continuation of a pass (a settled digest), a later
\* step of the same pass, creates and removes no entry.
C8_Incremental ==
    [][/\ (fires' = fires + 1 /\ lastPass' = "run" /\ blk.withLines) =>
            LET N == Len(blk.gutter)
                M == LineCount(Trim(mirrorText))
            IN /\ blk'.nn - blk.nn = (IF M > N THEN M - N ELSE 0)
               /\ Len(blk'.gutter) = M
               /\ \A j \in 1..(IF N < M THEN N ELSE M) :
                      blk'.gutter[j].node = blk.gutter[j].node
       /\ (fires' = fires /\ pc = "done" /\ Len(blk'.tasks) < Len(blk.tasks)) =>
            /\ blk'.nn = blk.nn
            /\ Len(blk'.gutter) = Len(blk.gutter)
            /\ \A j \in 1..Len(blk.gutter) : blk'.gutter[j].node = blk.gutter[j].node
      ]_vars

\* the configured first line number, read off the configuration
C9_Start(c) ==
    IF c.entry = "highlight" /\ c.o.ls # <<>> THEN c.o.ls[1]
    ELSE CASE c.a.lineStart = <<"1", "0">> -> 10
           [] c.a.lineStart = <<"-", "1">> -> -1
           [] c.a.lineStart = <<"0">> -> 0
           [] OTHER -> 1

\* C9: line numbering.  In every state after the initial render the i-th
\* gutter entry (from 0) shows lineStart + i, with lineStart 1 when none is
\* configured.
C9_Numbering ==
    (pc = "done" /\ NumericPrefix(SourceAttrs(cfg).lineStart) = SourceAttrs(cfg).lineStart) =>
        \A j \in 1..Len(blk.gutter) : blk.gutter[j].num = C9_Start(cfg) + j - 1

\* after a pass, three lines with start 10 are numbered 10, 11, 12
C9_Witness ==
    /\ fires > 0 /\ lastPass = "run"
    /\ C9_Start(cfg) = 10
    /\ [j \in 1..Len(blk.gutter) |-> blk.gutter[j].num] = <<10, 11, 12>>

\* the trimmed text of the block is empty: the mirror's for a live block,
\* the source element's at normalisation otherwise
TextIsEmpty ==
    IF Observing(cfg) THEN Trim(mirrorText) = <<>> ELSE muts = 0 /\ srcText = <<>>

\* C10: empty snippet.  A block whose trimmed text is empty, at
\* normalisation or after a live update, with no timer pending and no pass
\* in flight, shows empty code and has no gutter entry.
C10_EmptySnippet ==
    (pc = "done" /\ timer.pending = 0 /\ NoPassInFlight /\ TextIsEmpty)
        => blk.code.text = <<>> /\ blk.gutter = <<>>

\* sharing is asked for: by data-with-share or by the addShare option
ShareAsked(c) == SourceAttrs(c).share \/ c.o.addShare

\* C11: per-line share controls.  In a block with line numbers for which
\* sharing is asked for, by attribute or by option, every gutter entry has a
\* share button, after the initial render and after live updates.
C11_LineShare ==
    (pc = "done" /\ blk.withLines /\ ShareAsked(cfg))
        => \A j \in 1..Len(blk.gutter) : blk.gutter[j].share

\* C12: the fragment of a per-line share click.  For every gutter entry
\* with a share button, a click gives the block's identity at that time and
\* the number the entry shows, through one listener.
C12_LineFragment ==
    pc = "done" =>
        \A j \in 1..Len(blk.gutter) :
            blk.gutter[j].share =>
                /\ LineFragment(blk, j) = <<IdentityOf(blk), blk.gutter[j].num>>
                /\ IdentityOf(blk) # NoId
                /\ blk.gutter[j].lis = 1

\* after a pass that grew the gutter, every entry has a share button, the
\* container's id has changed from the temporary id to a hash and the first
\* entry's button has been bound to it
C12_Witness ==
    /\ fires > 0 /\ lastPass = "run" /\ Len(blk.gutter) = 3
    /\ \A j \in 1..Len(blk.gutter) : blk.gutter[j].share
    /\ IsHash(blk.cid)
    /\ blk.gutter[1].bid = blk.cid

\* C13: a fragment made of an identity, or of an identity, '_' and a line
\* number, is parsed by scrollToAnchor back to that identity and that line
\* number (no line number for the identity alone).
C13_RoundTrip ==
    anchor.parsed => /\ anchor.hash = shared.id
                     /\ anchor.lineNumber = shared.line

\* C14: HighlightIt.highlight called with no element, with a hidden mirror or
\* with an element inside a canonical container gives that element back and
\* changes nothing: no container, header, mirror, gutter or observer is
\* added, and the element keeps its text and its attributes.
C14_RejectedUnchanged ==
    [][(pc = "raw" /\ pc' # "raw" /\ cfg.entry = "highlight"
            /\ cfg.place \in {"missing", "mirror", "inside"})
        => /\ returned' = "element"
           /\ UNCHANGED <<srcText, mirrorText, blk, timer, dataset,
                          lastProcessedCode, detectedLanguage>>
           /\ ~blk'.header /\ ~blk'.gutterOn /\ ~blk'.copy.present
           /\ ~blk'.share.present /\ blk'.tasks = <<>>]_vars
\* highlight() has refused a hidden mirror whose text has white space around it
C14_Witness ==
    /\ pc = "rejected" /\ cfg.place = "mirror" /\ returned = "element"
    /\ srcText = <<NL>> /\ dataset = cfg.a /\ cfg.o.addLines

\* C15: HighlightIt.highlight on an element that passes the precondition
\* check returns the canonical container made for it, for a code inside a
\* pre and for any other source element.
C15_ReturnsContainer ==
    (pc = "done" /\ cfg.entry = "highlight") => returned = "container"

\* C16: init and highlight never throw to their caller, whatever element
\* they select or are given.
C16_NeverThrows == returned # "TypeError"

\* C17: when highlighting with the configured language fails, the first
\* render shows the result of auto-detection if autoDetect is enabled, and
\* HTML-escaped plain text otherwise.
C17_LanguageFallback ==
    (pc = "done" /\ fires = 0 /\ SeenDataset(cfg).language \notin Supported \cup {""})
        => blk.code = IF cfg.o.autoDetect
                      THEN AutoDetectLanguage(blk.code.text).value
                      ELSE EscapeHtml(blk.code.text)

\* C18: normalising a source element that is not a code inside a pre makes
\* exactly one container: the element that took the source element's place
\* and its attributes is the one highlightElement configures, whatever the
\* class of the source element.
C18_OneContainer ==
    (pc = "done" /\ cfg.tag = "div")
        => /\ OneContainer(cfg)
           /\ blk.withLines = (dataset.lines \/ cfg.o.addLines)
           /\ blk.orig = MirrorIdOf(cfg)

\* C19: a block whose copy button is switched off (addCopyButton false or
\* data-no-copy) has no copy button, with a header and without one, whatever
\* the share and download flags.
C19_NoCopyButton ==
    (pc = "done" /\ (dataset.noCopy \/ ~cfg.o.addCopyButton)) => ~blk.copy.present

\* C20: a live block whose language was configured, by data-language or by
\* the extension of data-filename, shows after the first render and after
\* every pass the markup of that one language; it is never detected anew.
C20_FixedLanguage ==
    (pc = "done" /\ Observing(cfg) /\ ConfiguredLanguage(cfg) \in Supported)
        => blk.code.lang = ConfiguredLanguage(cfg) /\ blk.code.mode = "hl"
\* the same for the blocks configured by data-language alone
C20_DataLanguage ==
    (pc = "done" /\ Observing(cfg) /\ Filename(cfg) = NoFile
            /\ SeenDataset(cfg).language \in Supported)
        => blk.code.lang = SeenDataset(cfg).language /\ blk.code.mode = "hl"

\* C21: in a live block with no configured language and auto-detection on,
\* once the header shows a language label, no later step changes the label's
\* text, and every later pass renders with the language the label names.
C21_LabelStable ==
    [][(pc = "done" /\ Observing(cfg) /\ ConfiguredLanguage(cfg) = ""
            /\ cfg.o.autoDetect /\ blk.header /\ blk.label # "")
        => /\ blk'.label = blk.label
           /\ blk'.writes # blk.writes
                => blk'.code \in {HighlightOrEscape(blk'.code.text, blk.label),
                                  AutoDetectLanguage(blk'.code.text).value}]_vars

\* C22: the header label of a block configured with a filename reads the
\* filename after the first render and after every pass, with or without a
\* data-language on the same block.
C22_FilenameLabel ==
    (pc = "done" /\ Filename(cfg) # NoFile /\ blk.header /\ cfg.o.showLanguage)
        => blk.label = Filename(cfg).name

\* C23: after a pass that processed the text T, with all its continuations
\* done, a click on the block's copy button writes T, and only T, to the
\* clipboard, and a click on its download button saves T, and only T.
C23_CopyPayload ==
    (pc = "done" /\ Observing(cfg) /\ lastPass = "run" /\ blk.tasks = <<>>)
        => /\ blk.copy.present => blk.copy.lis = <<lastProcessedCode>>
           /\ blk.download.present => blk.download.lis = <<lastProcessedCode>>

\* C24: a download button saves under the block's filename attribute if there
\* is one, else under 'code.' and the extension the table gives for the
\* block's language, and under 'code.txt' when the block has no language or
\* the table does not have it.
C24_DownloadName ==
    (pc = "done" /\ blk.download.present)
        => blk.download.name =
               IF cfg.filename # NoFile THEN cfg.filename.name
               ELSE IF SourceAttrs(cfg).language \in {"javascript", "python"}
               THEN "code." \o GetLanguageFileExtension(SourceAttrs(cfg).language)
               ELSE "code.txt"

\* C25: generateHash returns, on every path, a string of exactly 12
\* characters, each of them from the base-62 alphabet.
C25_HashShape ==
    call.fn = "generateHash"
        => /\ Len(call.out) = HashLength
           /\ \A i \in 1..Len(call.out) : call.out[i] \in {BASE62_CHARS[k] : k \in 1..62}

C25_DigestPath ==
    call.fn = "generateHash" /\ call.out = <<"0", "0", "0", "0", "0", "0", "0", "0", "0", "h", "3", "1">>

C25_FallbackPath ==
    call.fn = "generateHash" /\ call.input = [i \in 1..7 |-> "a"] /\ Len(call.out) = 14

C28_PolyfillObserver ==
    (pc # "raw" /\ ~cfg.native /\ Observing(cfg))
        => /\ returned # "ReferenceError"
           /\ (timer.pending = 0 /\ blk.tasks = <<>> /\ muts > 0)
                 => blk.code.text = Trim(mirrorText)

\* C29: with a line start that is no number, every gutter entry still
\* displays an integer, after the first render and after every pass.
C29_GutterIntegers ==
    (pc = "done" /\ SourceAttrs(cfg).lineStart # <<>>
            /\ NumericPrefix(SourceAttrs(cfg).lineStart) # SourceAttrs(cfg).lineStart)
        => \A j \in 1..Len(blk.gutter) : blk.gutter[j].num # NaN

\* C30: a pass of a live block starts only when no earlier pass of the block
\* is still waiting for its identity: the continuation that follows
\* updateBlockId has run before the next timer callback reconciles.
C30_OnePassAtATime ==
    [][(fires' = fires + 1 /\ lastPass' = "run")
        => ~\E i \in 1..Len(blk.tasks) : blk.tasks[i].kind = "updateBlockId"]_vars

\* C31: when a digest completes and the container's id has been assigned
\* since the computation started (it started with no id, or with the
\* temporary id of addLineNumbers), the completing computation leaves the
\* container's id as it is.
C31_DiscardStale ==
    [][\A i \in 1..Len(blk.tasks) :
          (/\ blk' = Resume(cfg, [blk EXCEPT !.tasks = RemoveAt(@, i), !.ev = {}], blk.tasks[i])
           /\ UNCHANGED <<timer, fires, muts>>
           /\ blk.cid \notin {NoId, TempId})
          => blk'.cid = blk.cid]_vars

\* C32: after a pass of a live block with no configured language and
\* autoDetect on, on a text of at least 3 characters, the visible markup is
\* the engine's highlighting with a detected language, never escaped plain
\* text, with sharing or without.
C32_DetectedMarkup ==
    (pc = "done" /\ Observing(cfg) /\ ConfiguredLanguage(cfg) = "" /\ LiveLanguage(cfg) = ""
            /\ cfg.o.autoDetect /\ lastPass = "run" /\ blk.tasks = <<>>
            /\ blk.code.text = lastProcessedCode /\ Len(lastProcessedCode) >= 3)
        => blk.code.mode = "hl" /\ blk.code.lang # ""

\* C33: whenever a share button is in the header or in the floating row, the
\* container has a data-original-id or an id, and a click on the button
\* copies the URL whose fragment is that identity.
C33_ShareHasIdentity ==
    blk.share.present
        => /\ OrId(blk.orig, blk.cid) # NoId
           /\ blk.share.lis # <<>>
           /\ \A i \in 1..Len(blk.share.lis) :
                 ClickId(blk.share.lis[i], blk) = OrId(blk.orig, blk.cid)

\* after a pass, the share button of a block that had no id: its identity is
\* the content hash that createShareButton waited for
C33_Witness ==
    /\ pc = "done" /\ fires > 0
    /\ blk.share.present /\ blk.orig = NoId /\ IsHash(blk.cid)
    /\ blk.tasks = <<>>

\* C34: for a live block made from an element that had the DOM id X, after
\* normalisation and after every pass the hidden mirror carries X and the
\* visible container does not.
C34_IdOnMirrorOnly ==
    (pc = "done" /\ WithLiveUpdates(cfg) /\ cfg.idOn = "el")
        => MirrorIdOf(cfg) = AuthorId /\ blk.cid # AuthorId

\* C35: bulk initialisation processes the matched elements once each, in
\* document order, at most 50 in a tick; when no tick is left every element
\* has been processed; the chunk loop navigates to the fragment only after
\* the last chunk.
C35_BulkInit ==
    /\ bulk.processed = [k \in 1..Len(bulk.processed) |-> k]
    /\ bulk.lastTick <= chunkSize
    /\ bulk.phase \in {"done", "thrown"} => Len(bulk.processed) = bulk.n
    /\ bulk.navigated => Len(bulk.processed) = bulk.n

\* C36: the timers of distinct live blocks are independent.  A step of one
\* block (a mutation of its mirror, its pass, the reaction to its digest)
\* leaves every pending timer of the other block pending, with the same
\* handle, and leaves the container, the mirror text and the closure
\* variables of the other block as they were
C36_Independent ==
    [][(page.phase = "live" /\ page' # page)
          => LET j == 3 - page'.last
             IN /\ page'.blocks[j] = page.blocks[j]
                /\ \A h \in page.timers : h.block = j => h \in page'.timers]_vars

\* block 2 has a pending timer, and block 1 has been mutated after it was
\* set and has run a pass
C36_Witness ==
    /\ page.phase = "live"
    /\ \E h \in page.timers : h.block = 2 /\ h.handle < page.next - 2
    /\ page.blocks[1].last # <<>>
    /\ page.blocks[1].timeout # 0
    /\ page.blocks[1].b.share.present

\* C37: after any sequence of passes every control of the block (the copy,
\* download and share buttons, in the header or floating, and every per-line
\* share button) has exactly one click listener
C37_OneHandler ==
    pc = "done"
        => /\ blk.copy.present => Len(blk.copy.lis) = 1
           /\ blk.download.present => Len(blk.download.lis) = 1
           /\ blk.share.present => Len(blk.share.lis) = 1
           /\ \A j \in 1..Len(blk.gutter) : blk.gutter[j].share => blk.gutter[j].lis = 1

\* C38: a pass leaves the subtree it observes alone, so that it causes no
\* pass that does work: with a mirror, a pass and the reaction to its digest
\* neither change the mirror's text nor set a timer; without one, a pass over
\* markup that the block wrote itself (engine markup or escaped text, not
\* text set by the page) is a no-op that sets no timer
C38_PassSettles ==
    [][/\ (pc = "done" /\ Observing(cfg) /\ muts' = muts /\ ~WatchesCode(cfg))
            => /\ mirrorText' = mirrorText
               /\ timer'.pending <= timer.pending
       /\ (pc = "done" /\ WatchesCode(cfg) /\ fires' = fires + 1
               /\ lastProcessedCode # <<>> /\ blk.code.mode # "text")
            => /\ lastPass' # "run"
               /\ timer'.pending < timer.pending]_vars

\* C39: init is idempotent on a processed block: a second init leaves the
\* block with the same code text, the header it had and no other, and the
\* gutter it had
C39_InitIdempotent ==
    [][(pc = "done" /\ pc' = "again")
          => /\ blk'.code.text = blk.code.text
             /\ blk'.headers = blk.headers
             /\ blk'.gutterOn = blk.gutterOn
             /\ Len(blk'.gutter) = Len(blk.gutter)]_vars

====
